---- MODULE Spec2Model ----
(***************************************************************************)
(* Model of the cross-instance migration engine of Pirna-flask:            *)
(*   scripts/db_migrate-prod2sqlite.py  (extract, snapshot, filter, load)  *)
(*   api/data_export_import_api.py      (export pages, import stages)      *)
(*                                                                         *)
(* Python dicts are TLA+ functions with string domains.  A missing key and *)
(* Python's None are both read as the falsy value of the field's type: 0   *)
(* for numeric fields and "" for string fields, which is what every        *)
(* `x.get(k) or ...` / `if x:` test of the source distinguishes.           *)
(***************************************************************************)
EXTENDS Integers, Sequences, FiniteSets, TLC

(***************************************************************************)
(* Bounds of the model.                                                    *)
(***************************************************************************)
\* Records per export page. The script asks for 50 (per_page = 50, line
\* 179); the model scales the page down so that multi-page collections stay
\* small.
per_page == 2
\* Largest source collection, in records.
MaxTotal == 4
\* Largest number of entity types whose extraction fails in one run.
MaxFailed == 1
\* The sources explored: table sizes shifted by 0..MaxShift over the types.
MaxShift == 1
\* Longest posts payload given to the posts stage.
MaxPosts == 2
\* Longest collection of the payloads given to the default-data filter.
MaxFilterLen == 2
\* Longest payload given to a natural-key load stage.
MaxLoadLen == 2
\* Latest clock reading, in seconds, at which a snapshot is saved.
MaxClock == 2
\* Number of posts of a payload of threads.
ThreadLen == 3

(***************************************************************************)
(* Program constants.                                                      *)
(***************************************************************************)
EXPORT_ENDPOINTS ==
    << "sections", "users", "topics", "microblogs", "posts",
       "classrooms", "feedback", "study", "personas", "user_personas" >>

paginated_types ==
    {"users", "microblogs", "posts", "topics", "personas", "user_personas"}

\* Mutants of the critical list: one critical type is left out.
criticalSectionsOnly == {"sections"}

criticalUsersOnly == {"users"}

critical == {"users", "sections"}

max_retries == 3

JSON_DATA == "instance/data.json"

DEFAULT_DATA ==
    [users    |-> {"admin", "user", "niko"},
     sections |-> {"CSA", "CSP", "Robotics", "CSSE"},
     topics   |-> {"/lessons/flask-introduction", "/hacks/javascript-basics",
                   "/projects/portfolio-showcase", "/general/daily-standup",
                   "/resources/study-materials"}]

Types == {EXPORT_ENDPOINTS[i] : i \in 1..Len(EXPORT_ENDPOINTS)}

(***************************************************************************)
(* Python helpers.                                                         *)
(***************************************************************************)
\* dict.get for a string-valued field: "" when the key is missing.
GetS(d, k) == IF k \in DOMAIN d THEN d[k] ELSE ""

\* dict.get for a numeric field: 0 when the key is missing.
GetN(d, k) == IF k \in DOMAIN d THEN d[k] ELSE 0

\* a or b, on strings and on numbers.
OrS(a, b) == IF a # "" THEN a ELSE b
OrN(a, b) == IF a # 0 THEN a ELSE b

Min(a, b) == IF a < b THEN a ELSE b

(***************************************************************************)
(* The source instance: what the export endpoints answer.                  *)
(***************************************************************************)
UidPool == << "admin", "alice", "niko", "bob", "carol", "dave" >>
AbbrevPool == << "CSA", "MATH", "CSP", "ART", "BIO", "CHEM" >>
PathPool == << "/general/daily-standup", "/p/a", "/p/b", "/p/c", "/p/d", "/p/e" >>

Pick(pool, k) == pool[((k - 1) % Len(pool)) + 1]

\* Row k of the source table of entity type t, as the export endpoint
\* serialises it: the source's surrogate id plus the natural keys the
\* endpoint adds.
SrcRow(t, k) ==
    CASE t = "users"      -> [id |-> k, uid |-> Pick(UidPool, k)]
      [] t = "sections"   -> [id |-> k, abbreviation |-> Pick(AbbrevPool, k)]
      [] t = "topics"     -> [id |-> k, pagePath |-> Pick(PathPool, k)]
      [] t = "microblogs" -> [id |-> k, userUid |-> Pick(UidPool, k)]
      [] t = "posts"      -> [id |-> k, userUid |-> Pick(UidPool, k)]
      [] OTHER            -> [id |-> k]

\* Query.paginate(page, per_page, error_out=False).items over a table of
\* `total` rows: an out-of-range page is empty.
PageItems(t, total, pg, pp) ==
    LET first == (pg - 1) * pp + 1
        last  == Min(pg * pp, total)
    IN  IF first > last THEN << >>
        ELSE [i \in 1..(last - first + 1) |-> SrcRow(t, first + i - 1)]

\* pagination.has_next
HasNext(total, pg, pp) == pg * pp < total

\* The body of a paginated export response.
ExportPage(t, total, pg, pp) ==
    [items |-> PageItems(t, total, pg, pp), has_next |-> HasNext(total, pg, pp)]

\* The body of a non-paginated export response: Model.query.all().
ExportAll(t, total) == [i \in 1..total |-> SrcRow(t, i)]

(***************************************************************************)
(* State.                                                                  *)
(***************************************************************************)
VARIABLES
    pc,               \* position of main(): the next step to run
    exitCode,         \* the process's exit status; -1 while it runs
    ops,              \* side effects on the target and on the disk, in order
    snapshot,         \* content of instance/data.json: [kind, val]
    backups,          \* the data.json.<timestamp>.bak copies: timestamp -> content
    held,             \* every content instance/data.json has held (history)
    main_all_data,    \* main()'s all_data: [kind, val]
    srcTotal,         \* rows of each table of the source instance
    faultBudget,      \* entity types the network lets fail in this run
    hasTables,        \* the target database has tables when main() starts
    answer,           \* what the operator types when main() calls input()
    typeIdx,          \* extract_all_data: position in EXPORT_ENDPOINTS
    page,             \* extract_all_data: page
    retry_count,      \* extract_all_data: retry_count
    all_records,      \* extract_all_data: all_records
    all_data,         \* extract_all_data: all_data
    total_records,    \* extract_all_data: total_records
    failed_endpoints, \* extract_all_data: failed_endpoints
    extracted,        \* extract_all_data's return value: [data, error]
    \* Observations of the request traffic (history, not program state).
    gType,            \* entity type of the most recent request
    gPage,            \* page of the most recent request (0: single-shot)
    attempts,         \* requests issued so far for (gType, gPage)
    transients,       \* transient failures so far on (gType, gPage)
    priorTransient,   \* an earlier page of gType took a transient failure
    lastResp,         \* outcome of the most recent request
    stopSeen,         \* per type: the stop signals its responses carried
    lateReq,          \* stop signals after which a request was still issued
    requested,        \* entity types a request was issued for
    failPage,         \* per type: the page whose failure was recorded, or 0
    \* The posts stage (load_posts / ImportAllData._import_posts).
    variant,          \* "script": load_posts, "api": _import_posts
    posts_data,       \* the stage's argument
    postPc,           \* "idle", "first" pass, "second" pass, "done"
    postIdx,          \* next record of the running pass
    id_mapping,       \* old id -> new id
    loaded,           \* loaded (script) / imported (api)
    skipped,          \* skipped (script) / failed (api)
    errors,           \* errors (api)
    dbPosts,          \* the target's posts table
    nextPostId,       \* the id the target assigns to the next post
    \* The natural-key load stages.
    db,               \* the target's tables: per entity type a bag of rows
    stage,            \* the running (or last) stage: its locals and history
    exchange          \* the last request to the Import Service and its response

extractVars ==
    << typeIdx, page, retry_count, all_records, all_data, total_records,
       failed_endpoints, extracted >>

trafficVars ==
    << gType, gPage, attempts, transients, priorTransient, lastResp,
       stopSeen, lateReq, requested, failPage >>

mainVars == << pc, exitCode, ops, snapshot, backups, held, main_all_data >>

envVars == << srcTotal, faultBudget, hasTables, answer >>

postVars ==
    << variant, posts_data, postPc, postIdx, id_mapping, loaded, skipped,
       errors, dbPosts, nextPostId >>

loadVars == << db, stage, exchange >>

vars == << mainVars, envVars, extractVars, trafficVars, postVars, loadVars >>

(***************************************************************************)
(* extract_all_data (db_migrate-prod2sqlite.py, 150-316).                  *)
(* One action is one HTTP request together with the handling of its        *)
(* response, up to the next request.                                       *)
(***************************************************************************)
CurType == EXPORT_ENDPOINTS[typeIdx]

FailedTypes == {failed_endpoints[i][1] : i \in 1..Len(failed_endpoints)}

Transient == {"504", "timeout"}
Terminal == {"http", "reqerr"}

\* The traffic observations after a request for page pg of type t that was
\* answered by resp, a response carrying the stop signals sig.
Observe(t, pg, resp, sig) ==
    LET samePage == gType = t /\ gPage = pg
        tr == (IF samePage THEN transients ELSE 0)
              + (IF resp \in Transient THEN 1 ELSE 0)
        at == (IF samePage THEN attempts ELSE 0) + 1
        worn == IF resp \in Transient /\ tr = 3 /\ at = 3
                THEN {"exhausted"} ELSE {}
    IN  /\ gType' = t
        /\ gPage' = pg
        /\ attempts' = at
        /\ transients' = tr
        /\ priorTransient' =
              IF gType # t THEN FALSE
              ELSE IF samePage THEN priorTransient
              ELSE priorTransient \/ transients > 0
        /\ lastResp' = resp
        /\ lateReq' = lateReq \cup stopSeen[t]
        /\ requested' = requested \cup {t}
        /\ stopSeen' = [stopSeen EXCEPT ![t] = @ \cup sig \cup worn]

\* Lines 251-252 and the loop's next iteration: the type's records are
\* stored and the for loop moves on.
StoreAndAdvance(t, recs) ==
    /\ all_data' = (t :> recs) @@ all_data
    /\ total_records' = total_records + Len(recs)
    /\ typeIdx' = typeIdx + 1
    /\ page' = 1
    /\ retry_count' = 0
    /\ all_records' = << >>

\* Lines 246-247: the outer loop's exit test after the retry loop.
LeavePageLoop(success, has_next) == ~success

\* Mutant: the page's records replace what was fetched (= for extend).
NextPageReplace(page_records) ==
    /\ all_records' = page_records
    /\ page' = page + 1
    /\ retry_count' = 0
    /\ UNCHANGED << all_data, total_records, typeIdx >>

\* Mutant: retry_count is set once per entity type, not once per page.
NextPageKeepRetries(page_records) ==
    /\ all_records' = all_records \o page_records
    /\ page' = page + 1
    /\ retry_count' = retry_count
    /\ UNCHANGED << all_data, total_records, typeIdx >>

\* Lines 220-221, 249 and 183-185: the page's records are appended and the
\* next page starts with its own retry counter.
NextPage(page_records) ==
    /\ all_records' = all_records \o page_records
    /\ page' = page + 1
    /\ retry_count' = 0
    /\ UNCHANGED << all_data, total_records, typeIdx >>

\* Lines 213-228 and 246-249: a 200 response to a page request.
FetchPageOk ==
    /\ pc = "extract"
    /\ typeIdx <= Len(EXPORT_ENDPOINTS)
    /\ CurType \in paginated_types
    /\ LET t == CurType
           result == ExportPage(t, srcTotal[t], page, per_page)
           page_records == result.items
           success == Len(page_records) # 0
           sig == IF Len(page_records) = 0 THEN {"empty"}
                  ELSE IF ~result.has_next THEN {"no_next"} ELSE {}
       IN  /\ Observe(t, page, "ok", sig)
           /\ IF LeavePageLoop(success, result.has_next)
              THEN StoreAndAdvance(t, all_records)
              ELSE NextPage(page_records)
    /\ UNCHANGED << failed_endpoints, extracted, failPage, mainVars, envVars, postVars, loadVars >>

\* Mutant: a failed page discards the pages fetched before it.
FailPageDrop(t, msg) ==
    /\ Len(failed_endpoints) < faultBudget
    /\ failed_endpoints' = Append(failed_endpoints, << t, msg >>)
    /\ failPage' = [failPage EXCEPT ![t] = page]
    /\ StoreAndAdvance(t, << >>)

\* Lines 209-211, 237-239, 242-244 and 246-253: the page's failure is
\* recorded, the page loop is left and what was fetched so far is stored.
FailPage(t, msg) ==
    /\ Len(failed_endpoints) < faultBudget
    /\ failed_endpoints' = Append(failed_endpoints, << t, msg >>)
    /\ failPage' = [failPage EXCEPT ![t] = page]
    /\ StoreAndAdvance(t, all_records)

\* Mutant: a retried failure is not counted.
RetryPageUncounted ==
    /\ retry_count' = retry_count
    /\ UNCHANGED << failed_endpoints, failPage, all_data, total_records,
                    typeIdx, page, all_records >>

\* Lines 203-207 and 231-235: a transient failure that is retried.
RetryPage ==
    /\ retry_count' = retry_count + 1
    /\ UNCHANGED << failed_endpoints, failPage, all_data, total_records,
                    typeIdx, page, all_records >>

\* The statuses other than 200 and 201 that the source answers with.
HttpFailures == {504, 500}

HttpMsg(code) == IF code = 504 THEN "HTTP 504" ELSE "HTTP 500"

\* Mutant: every failure status is retried.
RetryableStatusAny(code) == TRUE

\* Line 202: the status that is retried.
RetryableStatus(code) == code = 504

\* Lines 192-211: a response whose status is not 200 or 201.
FetchPageHttpError ==
    /\ pc = "extract"
    /\ typeIdx <= Len(EXPORT_ENDPOINTS)
    /\ CurType \in paginated_types
    /\ \E code \in HttpFailures :
          /\ IF code = 504
             THEN Observe(CurType, page, "504", {})
             ELSE Observe(CurType, page, "http", {"terminal"})
          /\ IF RetryableStatus(code) /\ retry_count + 1 < max_retries
             THEN RetryPage
             ELSE FailPage(CurType, HttpMsg(code))
    /\ UNCHANGED << extracted, mainVars, envVars, postVars, loadVars >>

\* Lines 230-239: requests.Timeout on a page request.
FetchPageTimeout ==
    /\ pc = "extract"
    /\ typeIdx <= Len(EXPORT_ENDPOINTS)
    /\ CurType \in paginated_types
    /\ Observe(CurType, page, "timeout", {})
    /\ IF retry_count + 1 < max_retries
       THEN RetryPage
       ELSE FailPage(CurType, "Request timed out")
    /\ UNCHANGED << extracted, mainVars, envVars, postVars, loadVars >>

\* Lines 241-244: any other requests.RequestException on a page request.
FetchPageRequestError ==
    /\ pc = "extract"
    /\ typeIdx <= Len(EXPORT_ENDPOINTS)
    /\ CurType \in paginated_types
    /\ Observe(CurType, page, "reqerr", {"terminal"})
    /\ FailPage(CurType, "request error")
    /\ UNCHANGED << extracted, mainVars, envVars, postVars, loadVars >>

\* Lines 257 and 272-283: a 200 response to a single-shot request.
FetchSingleOk ==
    /\ pc = "extract"
    /\ typeIdx <= Len(EXPORT_ENDPOINTS)
    /\ CurType \notin paginated_types
    /\ LET t == CurType
           records == ExportAll(t, srcTotal[t])
       IN  /\ Observe(t, 0, "ok", {})
           /\ all_data' = (t :> records) @@ all_data
           /\ total_records' = total_records + Len(records)
    /\ typeIdx' = typeIdx + 1
    /\ UNCHANGED << page, retry_count, all_records, failed_endpoints,
                    extracted, failPage, mainVars, envVars, postVars, loadVars >>

\* Mutant: a single-shot failure ends the whole for loop.
FailSingleAbort(t, msg) ==
    /\ Len(failed_endpoints) < faultBudget
    /\ failed_endpoints' = Append(failed_endpoints, << t, msg >>)
    /\ typeIdx' = Len(EXPORT_ENDPOINTS) + 1
    /\ UNCHANGED << page, retry_count, all_records, all_data, total_records,
                    extracted, failPage, mainVars, envVars, postVars, loadVars >>

\* Lines 268-270, 285-290: a single-shot failure is recorded and the for
\* loop goes on; all_data gets no entry for the type.
FailSingle(t, msg) ==
    /\ Len(failed_endpoints) < faultBudget
    /\ failed_endpoints' = Append(failed_endpoints, << t, msg >>)
    /\ typeIdx' = typeIdx + 1
    /\ UNCHANGED << page, retry_count, all_records, all_data, total_records,
                    extracted, failPage, mainVars, envVars, postVars, loadVars >>

\* Lines 259-270: a status that is not 200 or 201 (504 included).
FetchSingleHttpError ==
    /\ pc = "extract"
    /\ typeIdx <= Len(EXPORT_ENDPOINTS)
    /\ CurType \notin paginated_types
    /\ \E code \in HttpFailures :
          /\ Observe(CurType, 0, "http", {"terminal"})
          /\ FailSingle(CurType, HttpMsg(code))

\* Lines 285-287: requests.Timeout on a single-shot request.
FetchSingleTimeout ==
    /\ pc = "extract"
    /\ typeIdx <= Len(EXPORT_ENDPOINTS)
    /\ CurType \notin paginated_types
    /\ Observe(CurType, 0, "timeout", {"terminal"})
    /\ FailSingle(CurType, "Request timed out")

\* Lines 288-290: any other requests.RequestException.
FetchSingleRequestError ==
    /\ pc = "extract"
    /\ typeIdx <= Len(EXPORT_ENDPOINTS)
    /\ CurType \notin paginated_types
    /\ Observe(CurType, 0, "reqerr", {"terminal"})
    /\ FailSingle(CurType, "request error")

\* Lines 307-309: the critical types among the failed ones.
CriticalFailed(failed) ==
    {failed[i][1] : i \in {j \in 1..Len(failed) : failed[j][1] \in critical}}

\* Lines 292-316: the metadata block and the return value.
ExtractReturn ==
    /\ pc = "extract"
    /\ typeIdx = Len(EXPORT_ENDPOINTS) + 1
    /\ LET meta == [total_records |-> total_records,
                    tables |-> EXPORT_ENDPOINTS,
                    failed_endpoints |-> failed_endpoints]
           final == ("_metadata" :> meta) @@ all_data
       IN  /\ all_data' = final
           /\ extracted' =
                 IF CriticalFailed(failed_endpoints) # {}
                 THEN [data |-> [kind |-> "None", val |-> << >>],
                       error |-> "Critical endpoints failed"]
                 ELSE [data |-> [kind |-> "dict", val |-> final],
                       error |-> ""]
    /\ pc' = "extract_returned"
    /\ UNCHANGED << exitCode, ops, snapshot, backups, held, main_all_data, envVars, postVars, loadVars,
                    typeIdx, page, retry_count, all_records, total_records,
                    failed_endpoints, trafficVars >>

(***************************************************************************)
(* Snapshot store (db_migrate-prod2sqlite.py, 319-338).                    *)
(***************************************************************************)
NoneData == [kind |-> "None", val |-> << >>]

\* Lines 322-323: the clock readings a save can take its backup's name
\* from. strftime('%Y%m%d%H%M%S') keeps whole seconds, so a reading is a
\* second: the second of the latest backup made so far, or a later one.
BackupTimes(bak) ==
    IF DOMAIN bak = {} THEN {1}
    ELSE LET last == CHOOSE t \in DOMAIN bak : \A u \in DOMAIN bak : u <= t
         IN  {last, last + 1} \cap 1..MaxClock

\* write_data_to_json: an existing file is copied to
\* <json_file>.<timestamp>.bak, replacing a copy of that name, before the
\* write. Returns the new << snapshot, backups >>.
write_data_to_json(data, file, bak, timestamp) ==
    << [kind |-> "dict", val |-> data],
       IF file.kind # "missing" THEN (timestamp :> file) @@ bak ELSE bak >>

\* read_data_from_json: [data, error, raised]. json.load raises on a file
\* that is not JSON; any JSON value is returned as it is.
read_data_from_json(file) ==
    CASE file.kind = "missing" ->
            [data |-> NoneData, error |-> "JSON data file not found",
             raised |-> FALSE]
      [] file.kind = "malformed" ->
            [data |-> NoneData, error |-> "", raised |-> TRUE]
      [] OTHER ->
            [data |-> file, error |-> "", raised |-> FALSE]

(***************************************************************************)
(* Default-data filter (db_migrate-prod2sqlite.py, 343-417).               *)
(***************************************************************************)
\* Mutant: no uid is a default uid.
is_default_userNever(uid) == FALSE

is_default_user(uid) == uid \in DEFAULT_DATA.users

is_default_section(abbreviation) == abbreviation \in DEFAULT_DATA.sections

is_default_topic(page_path) == page_path \in DEFAULT_DATA.topics

\* x.get('user', {}).get('uid')
NestedUid(x) == IF "user" \in DOMAIN x THEN GetS(x.user, "uid") ELSE ""

\* Line 400: the conditional expression binds weaker than `or`, so the
\* whole `userUid or user.uid` is guarded by isinstance(p.get('user'), dict).
PostAuthorForFilter(p) ==
    IF "user" \in DOMAIN p THEN OrS(GetS(p, "userUid"), NestedUid(p)) ELSE ""

\* Mutant: only the five filtered and the five listed collections are
\* copied; the loop over the remaining keys is left out.
filter_default_dataListedKeys(d) ==
    [k \in DOMAIN d \ {"_metadata"} |->
        CASE k = "users" ->
                SelectSeq(d[k], LAMBDA u : ~is_default_user(GetS(u, "uid")))
          [] k = "sections" ->
                SelectSeq(d[k],
                    LAMBDA x : ~is_default_section(GetS(x, "abbreviation")))
          [] k = "topics" ->
                SelectSeq(d[k],
                    LAMBDA x : ~is_default_topic(
                        OrS(GetS(x, "pagePath"), GetS(x, "page_path"))))
          [] k = "microblogs" ->
                SelectSeq(d[k],
                    LAMBDA m : ~is_default_user(
                        OrS(GetS(m, "userUid"), NestedUid(m))))
          [] k = "posts" ->
                SelectSeq(d[k],
                    LAMBDA x : ~is_default_user(PostAuthorForFilter(x)))
          [] OTHER -> d[k]]

filter_default_data(d) ==
    [k \in DOMAIN d |->
        CASE k = "users" ->
                SelectSeq(d[k], LAMBDA u : ~is_default_user(GetS(u, "uid")))
          [] k = "sections" ->
                SelectSeq(d[k],
                    LAMBDA x : ~is_default_section(GetS(x, "abbreviation")))
          [] k = "topics" ->
                LET page_path_key ==
                        IF d[k] # << >> /\ "pagePath" \in DOMAIN d[k][1]
                        THEN "pagePath" ELSE "page_path"
                IN  SelectSeq(d[k],
                        LAMBDA x : ~is_default_topic(
                            OrS(GetS(x, page_path_key), GetS(x, "page_path"))))
          [] k = "microblogs" ->
                SelectSeq(d[k],
                    LAMBDA m : ~is_default_user(
                        OrS(GetS(m, "userUid"), NestedUid(m))))
          [] k = "posts" ->
                SelectSeq(d[k],
                    LAMBDA x : ~is_default_user(PostAuthorForFilter(x)))
          [] OTHER -> d[k]]

(***************************************************************************)
(* main() (db_migrate-prod2sqlite.py, 869-1061).                           *)
(***************************************************************************)
\* sys.exit that loses its argument.
ExitAlwaysZero(code) ==
    /\ pc' = "exit"
    /\ exitCode' = 0

Exit(code) ==
    /\ pc' = "exit"
    /\ exitCode' = code

\* An exception that no handler of main() catches: the interpreter prints
\* the traceback and ends the process with status 1.
Raise ==
    /\ pc' = "unhandled"
    /\ exitCode' = 1

\* What the operator may type at the prompt of line 880.
Answers == {"y", "Y", "n", ""}

\* lower() taken for a test that every answer passes.
lowerAlwaysYes(s) == "y"

\* Line 881: response.lower().
lower(s) == IF s = "Y" THEN "y" ELSE s

\* Lines 872-906: the confirmation gate and the backup of the target.
\* `outcome` is what the database calls do, `at` the call that raises when
\* one does: the inspection of the target or, after the gate, its backup.
\* A database that does not exist has no tables.
CheckTables ==
    /\ pc = "start"
    /\ \E outcome \in {"ok", "unknown_database", "error"},
          at \in {"inspect", "backup"} :
          /\ (hasTables /\ outcome = "unknown_database") => at = "backup"
          /\ LET asked == IF hasTables /\ (outcome = "ok" \/ at = "backup")
                          THEN << "prompt" >> ELSE << >>
             IN  CASE asked # << >> /\ lower(answer) # "y" ->
                         /\ Exit(0)
                         /\ ops' = ops \o asked
                   [] outcome = "error" ->
                         /\ Exit(1)
                         /\ ops' = ops \o asked
                   [] outcome = "unknown_database" ->
                         /\ pc' = "authenticate"
                         /\ ops' = ops \o asked
                                       \o << "create_database", "create_all" >>
                         /\ UNCHANGED exitCode
                   [] OTHER ->
                         /\ pc' = "authenticate"
                         /\ ops' = ops \o asked \o << "backup_database" >>
                         /\ UNCHANGED exitCode
    /\ UNCHANGED << snapshot, backups, held, main_all_data, envVars, postVars, loadVars, extractVars,
                    trafficVars >>

\* Lines 913-919 and 926-932: the snapshot is read in place of the source.
\* The calls are outside every try block: what json.load raises ends the run.
Fallback ==
    LET r == read_data_from_json(snapshot)
    IN  /\ ops' = Append(ops, "read_snapshot")
        /\ IF r.raised
           THEN /\ Raise
                /\ UNCHANGED main_all_data
           ELSE IF r.error # "" \/ r.data.kind = "None"
           THEN /\ Exit(1)
                /\ UNCHANGED main_all_data
           ELSE /\ pc' = "validate"
                /\ main_all_data' = r.data
                /\ UNCHANGED exitCode

\* Lines 132-147 and 910-920. A request that raises before a response
\* exists leaves `response` unbound, so building the error dict raises
\* UnboundLocalError, which nothing catches.
Authenticate ==
    /\ pc = "authenticate"
    /\ \E outcome \in {"ok", "http_error", "raised"} :
          CASE outcome = "ok" ->
                  /\ pc' = "extract"
                  /\ UNCHANGED << exitCode, ops, main_all_data >>
            [] outcome = "http_error" -> Fallback
            [] OTHER ->
                  /\ Raise
                  /\ UNCHANGED << ops, main_all_data >>
    /\ UNCHANGED << snapshot, backups, held, envVars, postVars, loadVars, extractVars, trafficVars >>

\* AfterExtract of a main() that goes on without saving the payload.
AfterExtractNoSave ==
    /\ pc = "extract_returned"
    /\ IF extracted.error # ""
       THEN Fallback
       ELSE /\ main_all_data' = extracted.data
            /\ pc' = "validate"
            /\ UNCHANGED << exitCode, ops >>
    /\ UNCHANGED << snapshot, backups, held, envVars, postVars, loadVars,
                    extractVars, trafficVars >>

\* AfterExtract of a main() that saves whatever extract_all_data returned
\* before it looks at the error.
AfterExtractSaveFirst ==
    /\ pc = "extract_returned"
    /\ \E timestamp \in BackupTimes(backups) :
          LET w == write_data_to_json(extracted.data.val, snapshot, backups,
                                      timestamp)
          IN  /\ snapshot' = w[1]
              /\ backups' = w[2]
              /\ held' = held \cup {w[1]}
              /\ ops' = IF extracted.error # ""
                        THEN ops \o << "write_snapshot", "read_snapshot" >>
                        ELSE Append(ops, "write_snapshot")
              /\ main_all_data' = IF extracted.error # "" THEN w[1]
                                  ELSE extracted.data
              /\ pc' = "validate"
              /\ UNCHANGED exitCode
    /\ UNCHANGED << envVars, postVars, loadVars, extractVars, trafficVars >>

\* Lines 923-935: fall back when extraction reported an error, save the
\* payload otherwise.
AfterExtract ==
    /\ pc = "extract_returned"
    /\ IF extracted.error # ""
       THEN /\ Fallback
            /\ UNCHANGED << snapshot, backups, held >>
       ELSE \E timestamp \in BackupTimes(backups) :
            LET w == write_data_to_json(extracted.data.val, snapshot, backups,
                                        timestamp)
            IN  /\ snapshot' = w[1]
                /\ backups' = w[2]
                /\ held' = held \cup {w[1]}
                /\ ops' = Append(ops, "write_snapshot")
                /\ main_all_data' = extracted.data
                /\ pc' = "validate"
                /\ UNCHANGED exitCode
    /\ UNCHANGED << envVars, postVars, loadVars, extractVars, trafficVars >>

\* Lines 937-946: an empty or non-mapping payload ends the run.
Validate ==
    /\ pc = "validate"
    /\ IF main_all_data.kind # "dict" \/ DOMAIN main_all_data.val = {}
       THEN Exit(1)
       ELSE /\ pc' = "filter"
            /\ UNCHANGED exitCode
    /\ UNCHANGED << ops, snapshot, backups, held, main_all_data, envVars, postVars, loadVars,
                    extractVars, trafficVars >>

\* Line 957.
Filter ==
    /\ pc = "filter"
    /\ main_all_data' =
          [kind |-> "dict", val |-> filter_default_data(main_all_data.val)]
    /\ pc' = "drop_all"
    /\ UNCHANGED << exitCode, ops, snapshot, backups, held, envVars, postVars, loadVars, extractVars,
                    trafficVars >>

\* Lines 969-980 and 1054-1058: one step of the schema reset; an exception
\* ends the run with status 1.
ResetSteps == << "drop_all", "create_all", "initUsers" >>

ResetSchema ==
    /\ \E i \in 1..Len(ResetSteps), raises \in BOOLEAN :
          /\ pc = ResetSteps[i]
          /\ IF raises
             THEN /\ Exit(1)
                  /\ ops' = Append(ops, "print_exc")
             ELSE /\ ops' = Append(ops, ResetSteps[i])
                  /\ pc' = IF i < Len(ResetSteps)
                           THEN ResetSteps[i + 1] ELSE "load"
                  /\ UNCHANGED exitCode
    /\ UNCHANGED << snapshot, backups, held, main_all_data, envVars, postVars, loadVars, extractVars,
                    trafficVars >>

\* The stages in the order in which the bulk import endpoint runs them.
LoadOrderAsBulk ==
    << "sections", "users", "topics", "personas", "user_personas",
       "microblogs", "posts", "classrooms", "feedback", "study" >>

\* Lines 993-1051: the load stages, in the order main() calls them.
LoadOrder ==
    << "sections", "users", "topics", "microblogs", "posts", "personas",
       "user_personas", "classrooms", "feedback", "study" >>

\* all_data.get(key, []) is non-empty.
HasData(d, k) == k \in DOMAIN d /\ d[k] # << >>

\* The stages main() runs for payload d: those whose collection is not empty.
StagesFor(d) == SelectSeq(LoadOrder, LAMBDA k : HasData(d, k))

\* The load stages main() has called so far: what ops holds after the
\* seed provisioning.
StagesRun ==
    LET i == CHOOSE k \in 1..Len(ops) : ops[k] = "initUsers"
    IN  SubSeq(ops, i + 1, Len(ops))

\* Lines 982-1061: one call of a load stage. The stages whose collection
\* is not empty run in order, each returning before the next is called;
\* an exception that escapes a stage is reported (lines 1054-1058) and ends
\* the run with status 1; after the last stage main() returns.
Load ==
    /\ pc = "load"
    /\ LET stages == StagesFor(main_all_data.val)
           n == Len(StagesRun)
       IN  IF n = Len(stages)
           THEN /\ pc' = "done"
                /\ exitCode' = 0
                /\ ops' = ops
           ELSE \E raises \in BOOLEAN :
                   IF raises
                   THEN /\ Exit(1)
                        /\ ops' = ops \o << stages[n + 1], "print_exc" >>
                   ELSE /\ ops' = Append(ops, stages[n + 1])
                        /\ UNCHANGED << pc, exitCode >>
    /\ UNCHANGED << snapshot, backups, held, main_all_data, envVars, postVars, loadVars, extractVars,
                    trafficVars >>

(***************************************************************************)
(* The posts stage: load_posts (db_migrate-prod2sqlite.py, 604-704) and    *)
(* ImportAllData._import_posts (data_export_import_api.py, 417-481).       *)
(* One action is one iteration of a pass: one payload record.              *)
(***************************************************************************)
\* The target's users table while the stage runs.
TargetUsers ==
    { [id |-> 1, uid |-> "admin", name |-> "Admin"],
      [id |-> 2, uid |-> "alice", name |-> "Alice"] }

\* main(), lines 982-990: old user id -> uid, from the users payload. The
\* payload holds alice and dana; the users stage created alice only (the
\* creation of dana failed and was passed over).
UserUidMap == (12 :> "alice") @@ (40 :> "dana")

\* User.query.filter_by(...).first(): the matching rows (none or one).
UserByUid(uid) == {u \in TargetUsers : u.uid = uid}

UserByName(name) == {u \in TargetUsers : u.name = name}

\* The posts the target holds before the stage: the seed posts that the
\* schema provisioning creates.
SeedPosts ==
    { [id |-> i, user_id |-> 1, parent_id |-> 0, migrated |-> FALSE,
       pass |-> 0, idx |-> 0, rec |-> [id |-> 0]] : i \in 1..2 }

\* Lines 620 / 427: p.get('parent_id') or p.get('parentId')
ParentForSplit(p) == OrN(GetN(p, "parent_id"), GetN(p, "parentId"))

top_level(data) == SelectSeq(data, LAMBDA p : ParentForSplit(p) = 0)

replies(data) == SelectSeq(data, LAMBDA p : ParentForSplit(p) # 0)

\* Lines 627-639 and 665-677 (script): the author by the old user id
\* through user_uid_map, else by studentName.
ScriptPostUser(p) ==
    LET old_user_id == OrN(GetN(p, "userId"), GetN(p, "user_id"))
        student_name == GetS(p, "studentName")
        mapped_uid == IF old_user_id # 0 /\ old_user_id \in DOMAIN UserUidMap
                      THEN UserUidMap[old_user_id] ELSE ""
        byMap == IF mapped_uid # "" THEN UserByUid(mapped_uid) ELSE {}
    IN  IF byMap # {} THEN byMap
        ELSE IF student_name # "" /\ student_name # "Unknown"
             THEN UserByName(student_name) ELSE {}

\* Lines 432-433 and 458-459 (api): the author by userUid.
ApiPostUser(p) ==
    IF GetS(p, "userUid") # "" THEN UserByUid(GetS(p, "userUid")) ELSE {}

PostUser(v, p) == IF v = "script" THEN ScriptPostUser(p) ELSE ApiPostUser(p)

\* Mutant: the parent is looked up among all the rows the run created,
\* replies included.
NewParentIdAnyRow(mapping, p) ==
    LET old_parent_id == OrN(GetN(p, "parentId"), GetN(p, "parent_id"))
        made == {row \in dbPosts : row.migrated /\ row.rec.id = old_parent_id}
    IN  IF made # {} THEN (CHOOSE row \in made : TRUE).id ELSE 0

\* Lines 684-685 / 464-465: the reply's parent through the remap table;
\* 0 when the table has no entry.
NewParentId(mapping, p) ==
    LET old_parent_id == OrN(GetN(p, "parentId"), GetN(p, "parent_id"))
    IN  IF old_parent_id \in DOMAIN mapping THEN mapping[old_parent_id] ELSE 0

\* Lines 654-656 / 447-449: the remap table after a top-level post was
\* created with id new_id.
Remember(mapping, p, new_id) ==
    IF GetN(p, "id") # 0 THEN (GetN(p, "id") :> new_id) @@ mapping
    ELSE mapping

\* Mutant: the reply keeps the parent id of the source.
ReplyParentSourceId(new_parent_id, p) ==
    OrN(GetN(p, "parentId"), GetN(p, "parent_id"))

\* Lines 691-695 / 470-474: the parent a created reply is stored with.
ReplyParent(new_parent_id, p) == new_parent_id

\* Mutant: the missing-parent test is left out.
SkipReplyNever(new_parent_id) == FALSE

\* Lines 687-689 / 466-468: a reply without a mapped parent is skipped.
SkipReply(new_parent_id) == new_parent_id = 0

\* Post.create(): the row is committed and the target assigns it the next
\* id; or the commit fails and create() returns None; or it raises.
CreateOutcomes == {"ok", "none", "raises"}

PostRow(new_id, user, parent, pass, i, p) ==
    [id |-> new_id, user_id |-> user.id, parent_id |-> parent,
     migrated |-> TRUE, pass |-> pass, idx |-> i, rec |-> p]

\* Lines 658-660 / 451-453 and 698-700 / 477-479: the except branch.
CountException(what) ==
    /\ skipped' = skipped + 1
    /\ errors' = IF variant = "api" THEN Append(errors, what) ELSE errors
    /\ UNCHANGED loaded

\* Lines 641-643 / 434-436 and 679-681, 687-689 / 460-462, 466-468.
CountSkip ==
    /\ skipped' = skipped + 1
    /\ UNCHANGED << loaded, errors >>

\* Advance the running pass past record postIdx of a pass of n records.
NextRecord(n, after) ==
    IF postIdx < n
    THEN /\ postIdx' = postIdx + 1
         /\ UNCHANGED postPc
    ELSE /\ postIdx' = 1
         /\ postPc' = after

\* The first pass is over when there are no replies either.
AfterFirst == IF Len(replies(posts_data)) = 0 THEN "done" ELSE "second"

\* Lines 623-660 / 430-453: one top-level post.
FirstPass ==
    /\ postPc = "first"
    /\ LET p == top_level(posts_data)[postIdx]
           user == PostUser(variant, p)
       IN  \E outcome \in CreateOutcomes :
              /\ IF user = {}
                 THEN /\ outcome = "ok"
                      /\ CountSkip
                      /\ UNCHANGED << id_mapping, dbPosts, nextPostId >>
                 ELSE CASE outcome = "ok" ->
                             /\ dbPosts' = dbPosts \cup
                                   {PostRow(nextPostId, CHOOSE u \in user : TRUE,
                                            0, 1, postIdx, p)}
                             /\ nextPostId' = nextPostId + 1
                             /\ id_mapping' = Remember(id_mapping, p, nextPostId)
                             /\ loaded' = loaded + 1
                             /\ UNCHANGED << skipped, errors >>
                        [] outcome = "none" ->
                             /\ UNCHANGED << id_mapping, dbPosts, nextPostId,
                                             loaded, skipped, errors >>
                        [] OTHER ->
                             /\ CountException("Post")
                             /\ UNCHANGED << id_mapping, dbPosts, nextPostId >>
              /\ NextRecord(Len(top_level(posts_data)), AfterFirst)
    /\ UNCHANGED << variant, posts_data, mainVars, envVars, extractVars,
                    trafficVars, loadVars >>

\* Lines 663-700 / 456-479: one reply.
SecondPass ==
    /\ postPc = "second"
    /\ LET p == replies(posts_data)[postIdx]
           user == PostUser(variant, p)
           new_parent_id == NewParentId(id_mapping, p)
       IN  \E outcome \in CreateOutcomes :
              /\ IF user = {} \/ SkipReply(new_parent_id)
                 THEN /\ outcome = "ok"
                      /\ CountSkip
                      /\ UNCHANGED << dbPosts, nextPostId >>
                 ELSE CASE outcome = "ok" ->
                             /\ dbPosts' = dbPosts \cup
                                   {PostRow(nextPostId, CHOOSE u \in user : TRUE,
                                            ReplyParent(new_parent_id, p),
                                            2, postIdx, p)}
                             /\ nextPostId' = nextPostId + 1
                             /\ loaded' = loaded + 1
                             /\ UNCHANGED << skipped, errors >>
                        [] outcome = "none" ->
                             /\ loaded' = loaded + 1
                             /\ UNCHANGED << dbPosts, nextPostId, skipped,
                                             errors >>
                        [] OTHER ->
                             /\ CountException("Reply")
                             /\ UNCHANGED << dbPosts, nextPostId >>
              /\ NextRecord(Len(replies(posts_data)), "done")
    /\ UNCHANGED << variant, posts_data, id_mapping, mainVars, envVars,
                    extractVars, trafficVars, loadVars >>

\* The posts payloads explored. Source ids are 1 and 3 (0: the record has
\* no id); a record carries its parent under one of the two spellings the
\* stage reads; the author is a user of the target, or a user the target
\* does not hold who bears the name of one it holds, or is unknown to it.
PostAuthors ==
    { [userUid |-> "alice", userId |-> 12, studentName |-> "Alice"],
      [userUid |-> "dana", userId |-> 40, studentName |-> "Alice"],
      [userUid |-> "zed", userId |-> 99, studentName |-> "Unknown"] }

PostParents == { << >>, [parentId |-> 1], [parent_id |-> 3] }

PostRecords ==
    { [id |-> i, content |-> "text"] @@ par @@ a :
        i \in {0, 1, 3}, par \in PostParents, a \in PostAuthors }

PostPayloads ==
    UNION { [1..n -> PostRecords] : n \in 1..MaxPosts }

(***************************************************************************)
(* The natural-key load stages: load_sections, load_users, load_topics,    *)
(* load_personas, load_user_personas (db_migrate-prod2sqlite.py, 420-536   *)
(* and 802-865) and ImportAllData._import_sections, _import_users,         *)
(* _import_topics, _import_personas, _import_user_personas                 *)
(* (data_export_import_api.py, 273-378 and 571-632).                       *)
(* One action is one iteration of a stage's loop: one payload record.      *)
(* A table is a bag of rows, so that two rows with the same content count  *)
(* as two.                                                                 *)
(***************************************************************************)
Kinds == {"sections", "users", "topics", "personas", "user_personas"}

\* The target after the schema reset and the seed provisioning.
SeedTarget ==
    [sections      |-> ([abbreviation |-> "CSA"] :> 1),
     users         |-> ([uid |-> "admin", sections |-> {}] :> 1),
     topics        |-> ([page_path |-> "/general/daily-standup"] :> 1),
     personas      |-> << >>,
     user_personas |-> << >>,
     microblogs    |-> << >>,
     classrooms    |-> << >>,
     feedback      |-> << >>,
     study         |-> << >>]

\* Mutant: the new row takes the place of the rows the table held.
AddRowOverwriting(table, row) == (row :> 1)

\* db.session.add(row); db.session.commit()
AddRow(table, row) ==
    IF row \in DOMAIN table
    THEN [table EXCEPT ![row] = @ + 1]
    ELSE (row :> 1) @@ table

\* The key a stage looks a record up by and creates it with.
\* Lines 428 / 282, 453 / 307, 809 / 579.
\* Lines 507 / 355: pagePath or page_path
TopicKey(r) == OrS(GetS(r, "pagePath"), GetS(r, "page_path"))

NaturalKey(kind, r) ==
    CASE kind = "sections" -> GetS(r, "abbreviation")
      [] kind = "users"    -> GetS(r, "uid")
      [] kind = "topics"   -> TopicKey(r)
      [] OTHER             -> GetS(r, "alias")

\* The key column of a row of the target.
RowKey(kind, row) ==
    CASE kind = "sections" -> row.abbreviation
      [] kind = "users"    -> row.uid
      [] kind = "topics"   -> row.page_path
      [] OTHER             -> row.alias

\* Mutant: the existence check never finds a row.
ExistsNever(table, kind, key) == FALSE

\* Model.query.filter_by(<key column> = key).first() is not None
Exists(table, kind, key) ==
    \E row \in DOMAIN table : RowKey(kind, row) = key

\* Mutant: every referenced section is attached, found or not.
UserSectionsAll(user_data, sections) ==
    LET refs == IF "sections" \in DOMAIN user_data THEN user_data.sections
                ELSE << >>
    IN  {refs[i].abbreviation : i \in 1..Len(refs)}

\* Lines 481-487 / 331-337: the sections of the target that the user's
\* record names; a name the target does not hold is passed over.
UserSections(user_data, sections) ==
    LET refs == IF "sections" \in DOMAIN user_data THEN user_data.sections
                ELSE << >>
    IN  {refs[i].abbreviation : i \in
            {j \in 1..Len(refs) :
                /\ GetS(refs[j], "abbreviation") # ""
                /\ Exists(sections, "sections", refs[j].abbreviation)}}

\* The row a stage builds from a record.
NewRow(kind, r, tables) ==
    CASE kind = "sections" -> [abbreviation |-> NaturalKey(kind, r)]
      [] kind = "users" ->
            [uid |-> NaturalKey(kind, r),
             sections |-> UserSections(r, tables.sections)]
      [] kind = "topics" -> [page_path |-> NaturalKey(kind, r)]
      [] OTHER -> [alias |-> NaturalKey(kind, r)]

\* Keys that a constraint of the target's schema rejects.
RejectedKeys == {"TOOLONG"}

\* <Model>.create(): a row without its key column raises; a row the schema
\* rejects is rolled back and create() returns None; any other row is
\* committed.
CreateResult(key) ==
    IF key = "" THEN "raises"
    ELSE IF key \in RejectedKeys THEN "none" ELSE "ok"

\* One iteration of the loop of a stage other than user_personas: what
\* happens to record r. Lines 426-440, 452-492, 505-534, 808-822 and
\* 280-294, 305-343, 354-376, 578-593.
KeyedStep(kind, v, r, tables) ==
    LET key == NaturalKey(kind, r)
    IN  IF kind = "topics" /\ v = "script" /\ key = ""
        THEN [db |-> tables, outcome |-> "no_key"]
        ELSE IF Exists(tables[kind], kind, key)
        THEN [db |-> tables, outcome |-> "exists"]
        ELSE CASE CreateResult(key) = "ok" ->
                    [db |-> [tables EXCEPT ![kind] =
                                AddRow(@, NewRow(kind, r, tables))],
                     outcome |-> "created"]
               [] CreateResult(key) = "none" ->
                    [db |-> tables, outcome |-> "rejected"]
               [] OTHER ->
                    [db |-> tables, outcome |-> "raised"]

\* Mutant: the association is added without looking for an existing one.
AssociationStepNoCheck(r, tables) ==
    LET user_uid == GetS(r, "userUid")
        persona_alias == GetS(r, "personaAlias")
        user == user_uid # "" /\ Exists(tables.users, "users", user_uid)
        persona == /\ persona_alias # ""
                   /\ Exists(tables.personas, "personas", persona_alias)
        row == [user |-> user_uid, persona |-> persona_alias]
    IN  IF ~user \/ ~persona
        THEN [db |-> tables, outcome |-> "unresolved"]
        ELSE [db |-> [tables EXCEPT !.user_personas = AddRow(@, row)],
              outcome |-> "created"]

\* Lines 835-861 / 604-630: one user-persona association.
AssociationStep(r, tables) ==
    LET user_uid == GetS(r, "userUid")
        persona_alias == GetS(r, "personaAlias")
        user == user_uid # "" /\ Exists(tables.users, "users", user_uid)
        persona == /\ persona_alias # ""
                   /\ Exists(tables.personas, "personas", persona_alias)
        row == [user |-> user_uid, persona |-> persona_alias]
    IN  IF ~user \/ ~persona
        THEN [db |-> tables, outcome |-> "unresolved"]
        ELSE IF row \in DOMAIN tables.user_personas
        THEN [db |-> tables, outcome |-> "exists"]
        ELSE [db |-> [tables EXCEPT !.user_personas = AddRow(@, row)],
              outcome |-> "created"]

\* main(), lines 982-990: old user id -> uid, from the users payload.
user_uid_map == (21 :> "bob") @@ (22 :> "carol")

\* Lines 555-567 (script): the author by userUid or the nested user's uid,
\* else by the old user id through user_uid_map. Lines 388-389 (api): by
\* userUid. The uid of the user found; "" when none is.
MicroblogUser(v, mb_data, tables) ==
    LET nested == IF "user" \in DOMAIN mb_data
                  THEN GetS(mb_data.user, "uid") ELSE ""
        user_uid == IF v = "script"
                    THEN OrS(GetS(mb_data, "userUid"), nested)
                    ELSE GetS(mb_data, "userUid")
        old_user_id == OrN(GetN(mb_data, "userId"), GetN(mb_data, "user_id"))
        mapped_uid == IF old_user_id \in DOMAIN user_uid_map
                      THEN user_uid_map[old_user_id] ELSE ""
    IN  IF user_uid # "" /\ Exists(tables.users, "users", user_uid)
        THEN user_uid
        ELSE IF /\ v = "script"
                /\ mapped_uid # ""
                /\ Exists(tables.users, "users", mapped_uid)
        THEN mapped_uid
        ELSE ""

\* Lines 573-581 (script): the topic by topicPath, topicKey or the nested
\* topic's page_path. Lines 396-400 (api): by topicPath. The page path of
\* the topic found; "" when none is, and the microblog gets no topic.
MicroblogTopic(v, mb_data, tables) ==
    LET nested == IF "topic" \in DOMAIN mb_data
                  THEN GetS(mb_data.topic, "page_path") ELSE ""
        topic_path == IF v = "script"
                      THEN OrS(OrS(GetS(mb_data, "topicPath"),
                                   GetS(mb_data, "topicKey")), nested)
                      ELSE GetS(mb_data, "topicPath")
    IN  IF topic_path # "" /\ Exists(tables.topics, "topics", topic_path)
        THEN topic_path ELSE ""

\* MicroBlog.create(): a row whose content is None raises; any other row,
\* an empty text included, is committed.
MicroblogCreate(mb_data) ==
    IF "content" \in DOMAIN mb_data THEN "ok" ELSE "raises"

\* Lines 552-597 / 386-410: one microblog. Only the script passes over a
\* record whose content is empty (lines 583-586).
MicroblogStep(v, mb_data, tables) ==
    LET user == MicroblogUser(v, mb_data, tables)
        row == [user |-> user, content |-> GetS(mb_data, "content"),
                topic |-> MicroblogTopic(v, mb_data, tables)]
    IN  IF user = ""
        THEN [db |-> tables, outcome |-> "unresolved"]
        ELSE IF v = "script" /\ GetS(mb_data, "content") = ""
        THEN [db |-> tables, outcome |-> "empty"]
        ELSE IF MicroblogCreate(mb_data) = "ok"
        THEN [db |-> [tables EXCEPT !.microblogs = AddRow(@, row)],
              outcome |-> "created"]
        ELSE [db |-> tables, outcome |-> "raised"]

\* Classroom.create(): a row without a name raises; any other row is
\* committed.
ClassroomCreate(classroom_data) ==
    IF "name" \in DOMAIN classroom_data THEN "ok" ELSE "raises"

\* Lines 732-735 / 508-511: the students of the target among studentUids.
ClassroomStudents(classroom_data, tables) ==
    LET student_uids == IF "studentUids" \in DOMAIN classroom_data
                        THEN classroom_data.studentUids ELSE << >>
    IN  {student_uids[i] : i \in
            {j \in 1..Len(student_uids) :
                Exists(tables.users, "users", student_uids[j])}}

\* Mutant: a classroom is created whether its owner is found or not.
ClassroomStepAnyOwner(classroom_data, tables) ==
    LET owner_uid == GetS(classroom_data, "ownerUid")
        row == [name |-> GetS(classroom_data, "name"), owner |-> owner_uid,
                students |-> ClassroomStudents(classroom_data, tables)]
    IN  IF ClassroomCreate(classroom_data) = "ok"
        THEN [db |-> [tables EXCEPT !.classrooms = AddRow(@, row)],
              outcome |-> "created"]
        ELSE [db |-> tables, outcome |-> "raised"]

\* Lines 714-741 / 490-517: one classroom.
ClassroomStep(classroom_data, tables) ==
    LET owner_uid == GetS(classroom_data, "ownerUid")
        owner == owner_uid # "" /\ Exists(tables.users, "users", owner_uid)
        row == [name |-> GetS(classroom_data, "name"), owner |-> owner_uid,
                students |-> ClassroomStudents(classroom_data, tables)]
    IN  IF ~owner
        THEN [db |-> tables, outcome |-> "unresolved"]
        ELSE IF ClassroomCreate(classroom_data) = "ok"
        THEN [db |-> [tables EXCEPT !.classrooms = AddRow(@, row)],
              outcome |-> "created"]
        ELSE [db |-> tables, outcome |-> "raised"]

\* Feedback.create(): a row without a title raises; any other row is
\* committed.
FeedbackCreate(fb_data) ==
    IF "title" \in DOMAIN fb_data THEN "ok" ELSE "raises"

\* Mutant: a feedback record the target already holds is passed over.
FeedbackStepIfNew(fb_data, tables) ==
    LET row == [title |-> GetS(fb_data, "title"),
                body |-> GetS(fb_data, "body")]
    IN  IF row \in DOMAIN tables.feedback
        THEN [db |-> tables, outcome |-> "exists"]
        ELSE IF FeedbackCreate(fb_data) = "ok"
        THEN [db |-> [tables EXCEPT !.feedback = AddRow(@, row)],
              outcome |-> "created"]
        ELSE [db |-> tables, outcome |-> "raised"]

\* Lines 753-762 / 527-539: one feedback record.
FeedbackStep(fb_data, tables) ==
    LET row == [title |-> GetS(fb_data, "title"),
                body |-> GetS(fb_data, "body")]
    IN  IF FeedbackCreate(fb_data) = "ok"
        THEN [db |-> [tables EXCEPT !.feedback = AddRow(@, row)],
              outcome |-> "created"]
        ELSE [db |-> tables, outcome |-> "raised"]

\* Study.create(): a row without a topic raises; any other row, one with no
\* user included, is committed.
StudyCreate(study_record) ==
    IF "topic" \in DOMAIN study_record THEN "ok" ELSE "raises"

\* Mutant: a study record whose user is not found is passed over.
StudyStepSkipOrphan(study_record, tables) ==
    LET user_uid == GetS(study_record, "userUid")
        user == user_uid # "" /\ Exists(tables.users, "users", user_uid)
        row == [user |-> user_uid, topic |-> GetS(study_record, "topic")]
    IN  IF ~user
        THEN [db |-> tables, outcome |-> "unresolved"]
        ELSE IF StudyCreate(study_record) = "ok"
        THEN [db |-> [tables EXCEPT !.study = AddRow(@, row)],
              outcome |-> "created"]
        ELSE [db |-> tables, outcome |-> "raised"]

\* Lines 772-789 / 551-564: one study record; user "" is the null user
\* reference.
StudyStep(study_record, tables) ==
    LET user_uid == GetS(study_record, "userUid")
        user == user_uid # "" /\ Exists(tables.users, "users", user_uid)
        row == [user |-> IF user THEN user_uid ELSE "",
                topic |-> GetS(study_record, "topic")]
    IN  IF StudyCreate(study_record) = "ok"
        THEN [db |-> [tables EXCEPT !.study = AddRow(@, row)],
              outcome |-> "created"]
        ELSE [db |-> tables, outcome |-> "raised"]

StageStep(kind, v, r, tables) ==
    CASE kind = "user_personas" -> AssociationStep(r, tables)
      [] kind = "microblogs" -> MicroblogStep(v, r, tables)
      [] kind = "classrooms" -> ClassroomStep(r, tables)
      [] kind = "feedback" -> FeedbackStep(r, tables)
      [] kind = "study" -> StudyStep(r, tables)
      [] OTHER -> KeyedStep(kind, v, r, tables)

\* loaded / imported: counted after create(), whatever it returned.
LoadedInc(outcome) == IF outcome \in {"created", "rejected"} THEN 1 ELSE 0

\* skipped (script: lines 458, 720, 742, 791, 843, 861) / failed (api: the except branches
\* and line 612).
SkippedInc(kind, v, outcome) ==
    IF v = "api"
    THEN IF outcome \in {"raised", "unresolved"} THEN 1 ELSE 0
    ELSE IF \/ kind = "users" /\ outcome = "exists"
            \/ kind = "user_personas" /\ outcome \in {"unresolved", "raised"}
            \/ kind = "microblogs"
                  /\ outcome \in {"unresolved", "empty", "raised"}
            \/ kind = "classrooms" /\ outcome \in {"unresolved", "raised"}
            \/ kind = "study" /\ outcome = "raised"
         THEN 1 ELSE 0

\* The except branch: an error is printed (script) or appended (api).
ErrorInc(outcome) == IF outcome = "raised" THEN 1 ELSE 0

\* The records of the payloads given to a stage.
LoadRecords(kind) ==
    CASE kind = "sections" ->
            { [abbreviation |-> "CSA"], [abbreviation |-> "MATH"],
              [abbreviation |-> "TOOLONG"], [name |-> "No key"] }
      [] kind = "users" ->
            { [uid |-> "admin"],
              [uid |-> "bob", sections |-> << [abbreviation |-> "MATH"] >>],
              [uid |-> "carol",
               sections |-> << [abbreviation |-> "ZZZ"],
                               [abbreviation |-> "CSA"] >>] }
      [] kind = "topics" ->
            { [pagePath |-> "/p/a"], [page_path |-> "/p/a"],
              [pagePath |-> "/general/daily-standup"], [id |-> 4] }
      [] kind = "personas" ->
            { [alias |-> "coder"], [alias |-> "artist"], [category |-> "x"] }
      [] kind = "microblogs" ->
            { [userUid |-> "admin", content |-> "hi",
               topicPath |-> "/general/daily-standup"],
              [userUid |-> "bob", content |-> "hi", topicPath |-> "/nope"],
              [userUid |-> "admin", content |-> ""],
              [userUid |-> "admin", topicPath |-> "/general/daily-standup"],
              [userUid |-> "zed", userId |-> 99, content |-> "hi"],
              [userId |-> 21, content |-> "hi",
               topicKey |-> "/general/daily-standup"],
              [user |-> [uid |-> "bob"], content |-> "yo",
               topic |-> [page_path |-> "/general/daily-standup"]] }
      [] kind = "classrooms" ->
            { [ownerUid |-> "admin", name |-> "red",
               studentUids |-> << "bob", "zed" >>],
              [ownerUid |-> "zed", name |-> "red", studentUids |-> << "bob" >>],
              [name |-> "red", studentUids |-> << "bob" >>],
              [ownerUid |-> "bob", name |-> "blue"],
              [ownerUid |-> "admin", studentUids |-> << "bob" >>] }
      [] kind = "feedback" ->
            { [title |-> "bug", body |-> "text"], [body |-> "text"] }
      [] kind = "study" ->
            { [userUid |-> "bob", topic |-> "loops"],
              [userUid |-> "zed", topic |-> "loops"],
              [topic |-> "loops"],
              [userUid |-> "zed"] }
      [] OTHER ->
            { [userUid |-> "admin", personaAlias |-> "coder"],
              [userUid |-> "bob", personaAlias |-> "coder"],
              [userUid |-> "admin"] }

IdleStage ==
    [pc |-> "idle", kind |-> "", variant |-> "", data |-> << >>, idx |-> 1,
     run |-> 0, before |-> SeedTarget, loaded |-> 0, skipped |-> 0,
     errors |-> 0, outcomes |-> << >>]

\* No request has been made yet.
NoExchange ==
    [method |-> "", path |-> "", role |-> "", status |-> 0, records |-> {}]

\* No stage has run on the target yet.
LoadIdle ==
    /\ db = SeedTarget
    /\ stage = IdleStage
    /\ exchange = NoExchange

\* The locals of a stage when it is called. In a first run `data` is the
\* part of the payload the loop has reached; in a repeated run it is the
\* payload of the first run.
BeginStage(kind, v, data, run) ==
    [pc |-> "run", kind |-> kind, variant |-> v, data |-> data, idx |-> 1,
     run |-> run, before |-> db, loaded |-> 0, skipped |-> 0, errors |-> 0,
     outcomes |-> << >>]

\* A stage is called by the script or by the Import Service.
StartLoad ==
    /\ stage.pc \in {"idle", "done"}
    /\ \E kind \in Kinds, v \in {"script", "api"} :
          stage' = BeginStage(kind, v, << >>, 1)
    /\ UNCHANGED << db, exchange, mainVars, envVars, extractVars, trafficVars,
                    postVars >>

\* The stage that has just ended is called again with the same payload.
Reload ==
    /\ stage.pc = "done"
    /\ stage.run = 1
    /\ stage' = BeginStage(stage.kind, stage.variant, stage.data, 2)
    /\ UNCHANGED << db, exchange, mainVars, envVars, extractVars, trafficVars,
                    postVars >>

\* The stage's locals after the loop's iteration on record r; `more` is
\* whether the payload holds a record after r.
AfterRecord(r, more) ==
    LET s == StageStep(stage.kind, stage.variant, r, db)
    IN  /\ db' = s.db
        /\ stage' = [stage EXCEPT
               !.data = IF stage.run = 1 THEN Append(@, r) ELSE @,
               !.idx = @ + 1,
               !.pc = IF more THEN "run" ELSE "done",
               !.loaded = @ + LoadedInc(s.outcome),
               !.skipped = @ + SkippedInc(stage.kind, stage.variant, s.outcome),
               !.errors = @ + ErrorInc(s.outcome),
               !.outcomes = Append(@, s.outcome)]

\* One record of the running stage: any record of a payload of at most
\* MaxLoadLen records in a first run, the next record of the same payload
\* in a repeated run.
LoadRecord ==
    /\ stage.pc = "run"
    /\ IF stage.run = 1
       THEN \E r \in LoadRecords(stage.kind), more \in BOOLEAN :
               AfterRecord(r, more /\ stage.idx < MaxLoadLen)
       ELSE AfterRecord(stage.data[stage.idx], stage.idx < Len(stage.data))
    /\ UNCHANGED << exchange, mainVars, envVars, extractVars, trafficVars,
                    postVars >>

(***************************************************************************)
(* The migration run.                                                      *)
(***************************************************************************)
\* The source tables' sizes: the sizes 0..MaxTotal spread over the types.
SrcTotals(n) ==
    [t \in Types |->
        (n + CHOOSE i \in 1..Len(EXPORT_ENDPOINTS) : EXPORT_ENDPOINTS[i] = t)
            % (MaxTotal + 1)]

\* A snapshot left by an earlier run.
OldPayload ==
    [users |-> << [id |-> 7, uid |-> "erin"] >>,
     sections |-> << [id |-> 3, abbreviation |-> "MATH"] >>,
     posts |-> << >>]

MissingFile == [kind |-> "missing", val |-> << >>]

SnapshotStates ==
    { MissingFile,
      [kind |-> "malformed", val |-> << >>],
      [kind |-> "list", val |-> << >>],
      [kind |-> "dict", val |-> << >>],
      [kind |-> "dict", val |-> OldPayload] }

\* The locals of extract_all_data before its first request.
ExtractInit ==
    /\ typeIdx = 1
    /\ page = 1
    /\ retry_count = 0
    /\ all_records = << >>
    /\ all_data = << >>
    /\ total_records = 0
    /\ failed_endpoints = << >>
    /\ extracted = [data |-> NoneData, error |-> ""]
    /\ gType = ""
    /\ gPage = 0
    /\ attempts = 0
    /\ transients = 0
    /\ priorTransient = FALSE
    /\ lastResp = ""
    /\ stopSeen = [t \in Types |-> {}]
    /\ lateReq = {}
    /\ requested = {}
    /\ failPage = [t \in Types |-> 0]

\* The posts stage is not running.
PostsIdle ==
    /\ variant = "script"
    /\ posts_data = << >>
    /\ postPc = "idle"
    /\ postIdx = 1
    /\ id_mapping = << >>
    /\ loaded = 0
    /\ skipped = 0
    /\ errors = << >>
    /\ dbPosts = {}
    /\ nextPostId = 1

\* A run of main(): any snapshot file, one source, at most one entity type
\* whose extraction fails.
Init ==
    /\ pc = "start"
    /\ exitCode = -1
    /\ ops = << >>
    /\ snapshot \in SnapshotStates
    /\ backups = << >>
    /\ held = {snapshot} \ {MissingFile}
    /\ main_all_data = NoneData
    /\ srcTotal = SrcTotals(1)
    /\ faultBudget = 1
    /\ hasTables \in BOOLEAN
    /\ answer \in IF hasTables THEN Answers ELSE {""}
    /\ ExtractInit
    /\ PostsIdle
    /\ LoadIdle

Extract ==
    \/ FetchPageOk
    \/ FetchPageHttpError
    \/ FetchPageTimeout
    \/ FetchPageRequestError
    \/ FetchSingleOk
    \/ FetchSingleHttpError
    \/ FetchSingleTimeout
    \/ FetchSingleRequestError
    \/ ExtractReturn

Next ==
    \/ CheckTables
    \/ Authenticate
    \/ Extract
    \/ AfterExtract
    \/ Validate
    \/ Filter
    \/ ResetSchema
    \/ Load

Spec == Init /\ [][Next]_vars

\* A call of extract_all_data: several sources, up to MaxFailed entity types
\* whose extraction fails.
InitExtract ==
    /\ pc = "extract"
    /\ exitCode = -1
    /\ ops = << >>
    /\ snapshot = MissingFile
    /\ backups = << >>
    /\ held = {snapshot} \ {MissingFile}
    /\ main_all_data = NoneData
    /\ \E n \in 0..MaxShift : srcTotal = SrcTotals(n)
    /\ faultBudget = MaxFailed
    /\ hasTables = FALSE
    /\ answer = ""
    /\ ExtractInit
    /\ PostsIdle
    /\ LoadIdle

SpecExtract == InitExtract /\ [][Extract]_vars

\* A call on one source, going on as long as it has a statement to run: the
\* function is sequential, every request returns (a response, or an
\* exception after the timeout of lines 190 and 257 at the latest), and the
\* sleep of a retry is two seconds.
InitExtractFair ==
    /\ InitExtract
    /\ srcTotal = SrcTotals(0)

SpecExtractFair == InitExtractFair /\ [][Extract]_vars /\ WF_vars(Extract)

\* A call of the posts stage, by the script or by the Import Service, on a
\* target that holds its users and the seed posts.
InitPosts ==
    /\ pc = "idle"
    /\ exitCode = -1
    /\ ops = << >>
    /\ snapshot = MissingFile
    /\ backups = << >>
    /\ held = {snapshot} \ {MissingFile}
    /\ main_all_data = NoneData
    /\ srcTotal = SrcTotals(0)
    /\ faultBudget = 0
    /\ hasTables = FALSE
    /\ answer = ""
    /\ ExtractInit
    /\ variant \in {"script", "api"}
    /\ posts_data \in PostPayloads
    /\ postPc = IF Len(top_level(posts_data)) = 0 THEN "second" ELSE "first"
    /\ postIdx = 1
    /\ id_mapping = << >>
    /\ loaded = 0
    /\ skipped = 0
    /\ errors = << >>
    /\ dbPosts = SeedPosts
    /\ nextPostId = Cardinality(SeedPosts) + 1
    /\ LoadIdle

NextPosts ==
    \/ FirstPass
    \/ SecondPass

SpecPosts == InitPosts /\ [][NextPosts]_vars

\* Payloads of ThreadLen posts with the source's ids 1..ThreadLen, in the
\* order of their ids; a post is top-level or names any post of the payload
\* as its parent, a reply included; the author is alice, whom both stages
\* find.
ThreadPayloads ==
    { [i \in 1..ThreadLen |->
          IF par[i] = 0
          THEN [id |-> i, content |-> "text", userUid |-> "alice",
                userId |-> 12, studentName |-> "Alice"]
          ELSE [id |-> i, content |-> "text", userUid |-> "alice",
                userId |-> 12, studentName |-> "Alice", parentId |-> par[i]]] :
        par \in [1..ThreadLen -> 0..ThreadLen] }

\* One run of the posts stage on a payload of threads.
InitThreads ==
    /\ pc = "idle"
    /\ exitCode = -1
    /\ ops = << >>
    /\ snapshot = MissingFile
    /\ backups = << >>
    /\ held = {snapshot} \ {MissingFile}
    /\ main_all_data = NoneData
    /\ srcTotal = SrcTotals(0)
    /\ faultBudget = 0
    /\ hasTables = FALSE
    /\ answer = ""
    /\ ExtractInit
    /\ variant \in {"script", "api"}
    /\ posts_data \in ThreadPayloads
    /\ postPc = IF Len(top_level(posts_data)) = 0 THEN "second" ELSE "first"
    /\ postIdx = 1
    /\ id_mapping = << >>
    /\ loaded = 0
    /\ skipped = 0
    /\ errors = << >>
    /\ dbPosts = SeedPosts
    /\ nextPostId = Cardinality(SeedPosts) + 1
    /\ LoadIdle

SpecThreads == InitThreads /\ [][NextPosts]_vars

\* The payloads given to the filter.  The collections hold records as the
\* export endpoints serialise them: a user by uid, a section by
\* abbreviation, a topic by its page path under either of the two spellings
\* the filter reads, a microblog or post with the author's userUid, with a
\* nested user object, with both or with neither.
FilteredKeys == {"users", "sections", "topics", "microblogs", "posts"}

AuthorShapes ==
    { [id |-> 1, userUid |-> "admin"],
      [id |-> 2, userUid |-> "alice"],
      [id |-> 3, user |-> [uid |-> "niko"]],
      [id |-> 4, userUid |-> "niko", user |-> [uid |-> "niko"]],
      [id |-> 5, content |-> "text"] }

SeqsUpTo(S, n) == UNION { [1..m -> S] : m \in 0..n }

FilterCollections(k) ==
    CASE k = "users" ->
            SeqsUpTo({ [id |-> 1, uid |-> "admin"], [id |-> 2, uid |-> "alice"],
                       [id |-> 3, uid |-> "niko"] }, MaxFilterLen)
      [] k = "sections" ->
            SeqsUpTo({ [id |-> 1, abbreviation |-> "CSA"],
                       [id |-> 2, abbreviation |-> "MATH"] }, MaxFilterLen)
      [] k = "topics" ->
            SeqsUpTo({ [id |-> 1, pagePath |-> "/general/daily-standup"],
                       [id |-> 2, pagePath |-> "/p/a"],
                       [id |-> 1, page_path |-> "/general/daily-standup"],
                       [id |-> 2, page_path |-> "/p/a"] }, MaxFilterLen)
      [] OTHER -> SeqsUpTo(AuthorShapes, MaxFilterLen)

\* What the collections other than the one under study hold.
FilterBase ==
    [users      |-> << [id |-> 1, uid |-> "admin"], [id |-> 2, uid |-> "alice"] >>,
     sections   |-> << [id |-> 2, abbreviation |-> "MATH"],
                       [id |-> 1, abbreviation |-> "CSA"] >>,
     topics     |-> << [id |-> 2, pagePath |-> "/p/a"],
                       [id |-> 1, pagePath |-> "/general/daily-standup"] >>,
     microblogs |-> << [id |-> 1, userUid |-> "admin"],
                       [id |-> 2, userUid |-> "alice"] >>,
     posts      |-> << [id |-> 2, userUid |-> "alice"],
                       [id |-> 1, userUid |-> "admin"] >>]

\* The collections the filter has no rule for; their records may well carry
\* a seed identity.
PassThrough ==
    [classrooms    |-> << [id |-> 1, name |-> "admin"] >>,
     feedback      |-> << [id |-> 1, uid |-> "admin"], [id |-> 2, uid |-> "bob"] >>,
     study         |-> << >>,
     personas      |-> << [alias |-> "CSA"] >>,
     user_personas |-> << [userUid |-> "admin", personaAlias |-> "CSA"] >>,
     _metadata     |-> [total_records |-> 7, failed_endpoints |-> << >>]]

FilterPayloads ==
    UNION { { [k \in {f} \cup present \cup pass |->
                  IF k = f THEN c
                  ELSE IF k \in FilteredKeys THEN FilterBase[k]
                  ELSE PassThrough[k]] :
                c \in FilterCollections(f),
                present \in SUBSET FilteredKeys,
                pass \in {{"_metadata"}, DOMAIN PassThrough} } :
            f \in FilteredKeys }

\* main() at line 957 with a payload read from the snapshot file.
InitFilter ==
    /\ pc = "filter"
    /\ exitCode = -1
    /\ ops = << "read_snapshot" >>
    /\ \E d \in FilterPayloads :
          /\ snapshot = [kind |-> "dict", val |-> d]
          /\ main_all_data = [kind |-> "dict", val |-> d]
    /\ backups = << >>
    /\ held = {snapshot} \ {MissingFile}
    /\ srcTotal = SrcTotals(0)
    /\ faultBudget = 0
    /\ hasTables = FALSE
    /\ answer = ""
    /\ ExtractInit
    /\ PostsIdle
    /\ LoadIdle

SpecFilter == InitFilter /\ [][Filter]_vars

\* filter_default_data is applied to the payload it has returned.
Refilter ==
    /\ pc = "drop_all"
    /\ main_all_data' =
          [kind |-> "dict", val |-> filter_default_data(main_all_data.val)]
    /\ pc' = "refiltered"
    /\ UNCHANGED << exitCode, ops, snapshot, backups, held, envVars, postVars,
                    loadVars, extractVars, trafficVars >>

NextFilterTwice ==
    \/ Filter
    \/ Refilter

SpecFilterTwice == InitFilter /\ [][NextFilterTwice]_vars

\* ImportAllData.post (data_export_import_api.py, 178-271): POST /import.
\* Mutant: the stages in the order in which main() of the script runs them.
BulkOrderAsScript ==
    << "sections", "users", "topics", "microblogs", "posts", "personas",
       "user_personas", "classrooms", "feedback", "study" >>

\* Lines 224-262: the stages in the order of the `if` statements.
BulkOrder ==
    << "sections", "users", "topics", "personas", "user_personas",
       "microblogs", "posts", "classrooms", "feedback", "study" >>

\* The request bodies: any subset of the ten keys, and for extra keys the
\* metadata of a snapshot; a value is a list, empty or not, or null.
BulkBodies ==
    { [k \in keys |->
          IF k = null THEN [kind |-> "null", items |-> << >>]
          ELSE [kind |-> "list",
                items |-> IF k \in empty THEN << >> ELSE << [id |-> 1] >>]] :
        keys \in SUBSET (Types \cup {"_metadata"}),
        null \in Types \cup {"none"},
        empty \in {{}, {"sections", "microblogs", "personas"}} }

\* The stages the handler reaches for a body: those whose key is present,
\* up to and including the first whose value cannot be iterated, which
\* raises outside the stage's per-record handler.
BulkStages(body) ==
    LET present == SelectSeq(BulkOrder, LAMBDA k : k \in DOMAIN body)
        bad == {i \in 1..Len(present) : body[present[i]].kind = "null"}
    IN  IF bad = {} THEN present
        ELSE SubSeq(present, 1, CHOOSE i \in bad : \A j \in bad : i <= j)

BulkRaises(body) == \E k \in DOMAIN body : k \in Types /\ body[k].kind = "null"

\* Lines 208-219: the tally every entity type starts with.
ZeroTally == [imported |-> 0, failed |-> 0, errors |-> << >>]

\* Lines 208-262: the results of a request that completes. The tally of a
\* stage that ran is what the stage returned for its list, kept as the
\* stage's call.
BulkResults(body) ==
    [t \in Types |->
        IF t \in DOMAIN body
        THEN [returned_by |-> t, items |-> body[t].items]
        ELSE ZeroTally]

\* The response of POST /import.
BulkResponse(role, status, results) ==
    [method |-> "POST", path |-> "import", role |-> role, status |-> status,
     records |-> {}, results |-> results]

\* Mutant: an empty body is taken for a body with no entity key.
BulkEmptyNever(data) == FALSE

\* Line 205: `if not data`.
BulkEmpty(data) == data.kind = "None" \/ DOMAIN data.val = {}

\* One request to POST /import.
BulkImport ==
    /\ pc = "bulk"
    /\ \E role \in {"Admin", "User"} :
          LET body == main_all_data.val
          IN  IF role # "Admin"
              THEN /\ pc' = "bulk_403"
                   /\ ops' = ops
                   /\ exchange' = BulkResponse(role, 403, << >>)
              ELSE IF BulkEmpty(main_all_data)
              THEN /\ pc' = "bulk_400"
                   /\ ops' = ops
                   /\ exchange' = BulkResponse(role, 400, << >>)
              ELSE IF BulkRaises(body)
              THEN /\ pc' = "bulk_500"
                   /\ ops' = ops \o BulkStages(body) \o << "rollback" >>
                   /\ exchange' = BulkResponse(role, 500, << >>)
              ELSE /\ pc' = "bulk_200"
                   /\ ops' = ops \o BulkStages(body)
                   /\ exchange' = BulkResponse(role, 200, BulkResults(body))
    /\ UNCHANGED << exitCode, snapshot, backups, held, main_all_data, envVars,
                    extractVars, trafficVars, postVars, db, stage >>

InitBulk ==
    /\ pc = "bulk"
    /\ exitCode = -1
    /\ ops = << >>
    /\ snapshot = MissingFile
    /\ backups = << >>
    /\ held = {snapshot} \ {MissingFile}
    /\ \/ \E body \in BulkBodies :
              main_all_data = [kind |-> "dict", val |-> body]
       \/ main_all_data = NoneData
    /\ srcTotal = SrcTotals(0)
    /\ faultBudget = 0
    /\ hasTables = FALSE
    /\ answer = ""
    /\ ExtractInit
    /\ PostsIdle
    /\ LoadIdle

SpecBulk == InitBulk /\ [][BulkImport]_vars

\* Any sequence of natural-key load stages on a freshly provisioned target,
\* a stage being possibly repeated with the payload it has just loaded.
InitLoad ==
    /\ pc = "load"
    /\ exitCode = -1
    /\ ops = << >>
    /\ snapshot = MissingFile
    /\ backups = << >>
    /\ held = {snapshot} \ {MissingFile}
    /\ main_all_data = NoneData
    /\ srcTotal = SrcTotals(0)
    /\ faultBudget = 0
    /\ hasTables = FALSE
    /\ answer = ""
    /\ ExtractInit
    /\ PostsIdle
    /\ LoadIdle

NextLoad ==
    \/ StartLoad
    \/ Reload
    \/ LoadRecord

SpecLoad == InitLoad /\ [][NextLoad]_vars

\* Payloads handed to write_data_to_json by successive runs.
SavePayloads ==
    { [users |-> << [id |-> n, uid |-> "erin"] >>,
       sections |-> << >>,
       posts |-> << >>] : n \in 1..3 }

\* One call of write_data_to_json(data) on instance/data.json.
Save ==
    /\ pc = "save"
    /\ \E data \in SavePayloads, timestamp \in BackupTimes(backups) :
           LET w == write_data_to_json(data, snapshot, backups, timestamp)
           IN  /\ snapshot' = w[1]
               /\ backups' = w[2]
               /\ held' = held \cup {w[1]}
    /\ UNCHANGED << pc, exitCode, ops, main_all_data, envVars, postVars,
                    loadVars, extractVars, trafficVars >>

\* Any sequence of saves over any snapshot file.
InitSave ==
    /\ pc = "save"
    /\ exitCode = -1
    /\ ops = << >>
    /\ snapshot \in SnapshotStates
    /\ backups = << >>
    /\ held = {snapshot} \ {MissingFile}
    /\ main_all_data = NoneData
    /\ srcTotal = SrcTotals(0)
    /\ faultBudget = 0
    /\ hasTables = FALSE
    /\ answer = ""
    /\ ExtractInit
    /\ PostsIdle
    /\ LoadIdle

SpecSave == InitSave /\ [][Save]_vars

\* The microblogs stage is called by the script or by the Import Service.
StartMicroblogs ==
    /\ stage.pc = "idle"
    /\ \E v \in {"script", "api"} :
          stage' = BeginStage("microblogs", v, << >>, 1)
    /\ UNCHANGED << db, exchange, mainVars, envVars, extractVars, trafficVars,
                    postVars >>

\* One run of the microblogs stage on a target that holds the seed rows
\* and the user bob.
InitMicroblogs ==
    /\ pc = "load"
    /\ exitCode = -1
    /\ ops = << >>
    /\ snapshot = MissingFile
    /\ backups = << >>
    /\ held = {snapshot} \ {MissingFile}
    /\ main_all_data = NoneData
    /\ srcTotal = SrcTotals(0)
    /\ faultBudget = 0
    /\ hasTables = FALSE
    /\ answer = ""
    /\ ExtractInit
    /\ PostsIdle
    /\ db = [SeedTarget EXCEPT
                !.users = AddRow(@, [uid |-> "bob", sections |-> {}])]
    /\ stage = IdleStage
    /\ exchange = NoExchange

NextMicroblogs ==
    \/ StartMicroblogs
    \/ LoadRecord

SpecMicroblogs == InitMicroblogs /\ [][NextMicroblogs]_vars

\* The entity types that have no natural key.
OpaqueKinds == {"microblogs", "classrooms", "feedback", "study"}

\* A stage of an entity type without a natural key is called by the script
\* or by the Import Service.
StartOpaque ==
    /\ stage.pc = "idle"
    /\ \E kind \in OpaqueKinds, v \in {"script", "api"} :
          stage' = BeginStage(kind, v, << >>, 1)
    /\ UNCHANGED << db, exchange, mainVars, envVars, extractVars, trafficVars,
                    postVars >>

NextOpaque ==
    \/ StartOpaque
    \/ Reload
    \/ LoadRecord

\* One such stage, possibly repeated with the payload it has just loaded, on
\* a target that holds the seed rows and the user bob.
SpecOpaque == InitMicroblogs /\ [][NextOpaque]_vars

(***************************************************************************)
(* The endpoints of the Import Service (data_export_import_api.py, 25-42,  *)
(* 172-207, 636-1085): GET /all, POST /import, GET /<type> and             *)
(* POST /import/<type> for each of the ten entity types.                   *)
(***************************************************************************)
\* Lines 1064-1085: the registered routes.
Endpoints ==
    { [method |-> "GET", path |-> "all"], [method |-> "POST", path |-> "import"] }
        \cup { [method |-> "GET", path |-> t] : t \in Types }
        \cup { [method |-> "POST", path |-> t] : t \in Types }

\* The roles of the users of the target.
Roles == {"Admin", "User"}

\* A handler whose privilege test lets every role through.
ForbiddenNever(role) == FALSE

\* Lines 41, 202, 640, ..., 1050: current_user.role != 'Admin', the first
\* statement of every handler.
Forbidden(role) == role # "Admin"

\* The rows of a table of the target; the model holds no rows for the
\* tables that are not in db.
Rows(tables, t) == IF t \in DOMAIN tables THEN DOMAIN tables[t] ELSE {}

\* The records a GET returns to an administrator: the rows of the
\* endpoint's table, of every table for /all.
Exported(tables, path) ==
    IF path = "all" THEN UNION { Rows(tables, t) : t \in Types }
    ELSE Rows(tables, path)

\* The request bodies of a POST to a path: one key, with no record or one
\* record; for POST /import any of the keys. The tables that are not in db
\* get no record.
ImportBodies(path) ==
    LET lists(k) == IF k \in Kinds
                    THEN {<< >>} \cup {<< r >> : r \in LoadRecords(k)}
                    ELSE {<< >>}
    IN  IF path = "import"
        THEN UNION { {[kind |-> k, data |-> d] : d \in lists(k)} : k \in Kinds }
        ELSE {[kind |-> path, data |-> d] : d \in lists(path)}

\* The target after an administrator's import of `data` into table kind:
\* the stage's loop over the records.
RECURSIVE ImportRows(_, _, _)
ImportRows(kind, data, tables) ==
    IF data = << >> THEN tables
    ELSE ImportRows(kind, Tail(data),
                    StageStep(kind, "api", Head(data), tables).db)

\* One request by an authenticated user to one endpoint.
ApiRequest ==
    /\ pc = "api"
    /\ \E e \in Endpoints, role \in Roles :
       \E body \in IF e.method = "GET" THEN {[kind |-> e.path, data |-> << >>]}
                   ELSE ImportBodies(e.path) :
          /\ IF Forbidden(role)
             THEN /\ exchange' = [method |-> e.method, path |-> e.path,
                                  role |-> role, status |-> 403,
                                  records |-> {}]
                  /\ db' = db
             ELSE IF e.method = "GET"
             THEN /\ exchange' = [method |-> e.method, path |-> e.path,
                                  role |-> role, status |-> 200,
                                  records |-> Exported(db, e.path)]
                  /\ db' = db
             ELSE IF e.path = "import" /\ body.data = << >>
             THEN /\ exchange' = [method |-> e.method, path |-> e.path,
                                  role |-> role, status |-> 400,
                                  records |-> {}]
                  /\ db' = db
             ELSE /\ exchange' = [method |-> e.method, path |-> e.path,
                                  role |-> role, status |-> 200,
                                  records |-> {}]
                  /\ db' = ImportRows(body.kind, body.data, db)
    /\ UNCHANGED << stage, mainVars, envVars, extractVars, trafficVars,
                    postVars >>

\* Any sequence of requests to the endpoints of a freshly provisioned
\* target.
InitApi ==
    /\ pc = "api"
    /\ exitCode = -1
    /\ ops = << >>
    /\ snapshot = MissingFile
    /\ backups = << >>
    /\ held = {snapshot} \ {MissingFile}
    /\ main_all_data = NoneData
    /\ srcTotal = SrcTotals(0)
    /\ faultBudget = 0
    /\ hasTables = FALSE
    /\ answer = ""
    /\ ExtractInit
    /\ PostsIdle
    /\ LoadIdle

SpecApi == InitApi /\ [][ApiRequest]_vars

(***************************************************************************)
(* The same payload imported twice by the Import Service                   *)
(* (data_export_import_api.py, 380-569): the stage of one entity type      *)
(* without a natural key, run again on the target its first run left.      *)
(***************************************************************************)
\* A post of the source as GET /posts exports it (lines 748-751).
ExportedPost(i, par, uid) ==
    IF par = 0
    THEN [id |-> i, content |-> "text", userUid |-> uid]
    ELSE [id |-> i, content |-> "text", userUid |-> uid, parentId |-> par]

\* The posts payloads imported twice: a post, a post and its reply, a
\* thread of depth two, two posts, a reply whose parent is not in the
\* payload, a post and a reply by a user the target does not hold.
RepeatPayloads ==
    { << ExportedPost(1, 0, "alice") >>,
      << ExportedPost(1, 0, "alice"), ExportedPost(2, 1, "alice") >>,
      << ExportedPost(1, 0, "alice"), ExportedPost(2, 1, "alice"),
         ExportedPost(3, 2, "alice") >>,
      << ExportedPost(1, 0, "alice"), ExportedPost(2, 0, "admin") >>,
      << ExportedPost(2, 1, "alice") >>,
      << ExportedPost(1, 0, "alice"), ExportedPost(2, 1, "zed") >> }

\* The stage of an entity type without a natural key, posts apart, is
\* called by the Import Service.
StartRepeat ==
    /\ postPc = "idle"
    /\ stage.pc = "idle"
    /\ \E kind \in OpaqueKinds : stage' = BeginStage(kind, "api", << >>, 1)
    /\ UNCHANGED << db, exchange, mainVars, envVars, extractVars, trafficVars,
                    postVars >>

\* _import_posts is called again with the payload it has just imported:
\* its locals start afresh (lines 419-424) and the posts table is the one
\* the first call left. `stage` keeps the first call's tally and the
\* number of rows it created.
Reimport ==
    /\ postPc = "done"
    /\ stage.run = 0
    /\ postPc' = IF Len(top_level(posts_data)) = 0 THEN "second" ELSE "first"
    /\ postIdx' = 1
    /\ id_mapping' = << >>
    /\ loaded' = 0
    /\ skipped' = 0
    /\ errors' = << >>
    /\ stage' = [stage EXCEPT !.kind = "posts", !.variant = variant,
                              !.run = 2, !.loaded = loaded,
                              !.skipped = skipped, !.errors = Len(errors),
                              !.idx = Cardinality(dbPosts \ SeedPosts)]
    /\ UNCHANGED << variant, posts_data, dbPosts, nextPostId, db, exchange,
                    mainVars, envVars, extractVars, trafficVars >>

NextRepeat ==
    \/ StartRepeat
    \/ LoadRecord
    \/ Reload
    \/ FirstPass
    \/ SecondPass
    \/ Reimport

\* Either a posts payload is given to _import_posts, or no posts stage runs
\* and another stage is called; the target holds the seed rows and the
\* user bob.
InitRepeat ==
    /\ pc = "import"
    /\ exitCode = -1
    /\ ops = << >>
    /\ snapshot = MissingFile
    /\ backups = << >>
    /\ held = {snapshot} \ {MissingFile}
    /\ main_all_data = NoneData
    /\ srcTotal = SrcTotals(0)
    /\ faultBudget = 0
    /\ hasTables = FALSE
    /\ answer = ""
    /\ ExtractInit
    /\ variant = "api"
    /\ posts_data \in RepeatPayloads \cup {<< >>}
    /\ postPc = IF posts_data = << >> THEN "idle"
                ELSE IF Len(top_level(posts_data)) = 0 THEN "second"
                ELSE "first"
    /\ postIdx = 1
    /\ id_mapping = << >>
    /\ loaded = 0
    /\ skipped = 0
    /\ errors = << >>
    /\ dbPosts = SeedPosts
    /\ nextPostId = Cardinality(SeedPosts) + 1
    /\ db = [SeedTarget EXCEPT
                !.users = AddRow(@, [uid |-> "bob", sections |-> {}])]
    /\ stage = IdleStage
    /\ exchange = NoExchange

SpecRepeat == InitRepeat /\ [][NextRepeat]_vars

(***************************************************************************)
(* The user's persona assignments (persona_api.py, 308-383):               *)
(* POST /api/user/persona and DELETE /api/user/persona/<id>. In this       *)
(* specification db holds the personas table and the committed             *)
(* user_personas rows, and exchange the last request with the rows it      *)
(* found.                                                                  *)
(***************************************************************************)
PersonaUsers == {"alice", "bob"}

\* The ids of the personas table.
PersonaIds == {1, 2, 3}

\* The persona_id of a request body: 0 when the body has none, 9 an id of
\* no persona.
PersonaRequests == {0, 9} \cup PersonaIds

\* Line 343: the name `weight` is bound in no scope of the module
\* (CATEGORY_WEIGHTS, lines 14-19, is never read), so that evaluating it
\* raises NameError.
weight == [raises |-> "NameError"]

\* The rows of user_personas of one user.
PersonasOf(rows, user) == {r \in rows : r.user = user}

PersonaResponse(method, user, persona_id, status, before) ==
    [method |-> method, path |-> "user/persona", role |-> user,
     status |-> status, records |-> before, persona_id |-> persona_id]

\* Lines 310-352: _UserPersona.post. The DELETE of line 337 runs in the
\* request's transaction; the exception of line 343 leaves the handler
\* before any commit, and the transaction is dropped with the request.
SelectPersona ==
    /\ pc = "persona"
    /\ \E current_user \in PersonaUsers, persona_id \in PersonaRequests :
          LET rows == db.user_personas
              existing == [user |-> current_user, persona |-> persona_id]
                              \in rows
              deleted == rows \ PersonasOf(rows, current_user)
              created == deleted \cup
                            {[user |-> current_user, persona |-> persona_id]}
              status == IF persona_id = 0 THEN 400
                        ELSE IF persona_id \notin db.personas THEN 404
                        ELSE IF existing THEN 400
                        ELSE IF "raises" \in DOMAIN weight THEN 500
                        ELSE 201
          IN  /\ db' = [db EXCEPT !.user_personas =
                                  IF status = 201 THEN created ELSE rows]
              /\ exchange' = PersonaResponse("POST", current_user, persona_id,
                                             status, rows)
    /\ UNCHANGED << stage, mainVars, envVars, extractVars, trafficVars,
                    postVars >>

\* Lines 365-383: _DeleteUserPersona.delete.
DeleteUserPersona ==
    /\ pc = "persona"
    /\ \E current_user \in PersonaUsers, persona_id \in PersonaIds \cup {9} :
          LET rows == db.user_personas
              user_persona == [user |-> current_user, persona |-> persona_id]
          IN  IF user_persona \notin rows
              THEN /\ db' = db
                   /\ exchange' = PersonaResponse("DELETE", current_user,
                                                  persona_id, 404, rows)
              ELSE /\ db' = [db EXCEPT !.user_personas = rows \ {user_persona}]
                   /\ exchange' = PersonaResponse("DELETE", current_user,
                                                  persona_id, 200, rows)
    /\ UNCHANGED << stage, mainVars, envVars, extractVars, trafficVars,
                    postVars >>

NextPersona ==
    \/ SelectPersona
    \/ DeleteUserPersona

\* Any sequence of requests of the users, on a target whose users hold any
\* of the personas.
InitPersona ==
    /\ pc = "persona"
    /\ exitCode = -1
    /\ ops = << >>
    /\ snapshot = MissingFile
    /\ backups = << >>
    /\ held = {snapshot} \ {MissingFile}
    /\ main_all_data = NoneData
    /\ srcTotal = SrcTotals(0)
    /\ faultBudget = 0
    /\ hasTables = FALSE
    /\ answer = ""
    /\ ExtractInit
    /\ PostsIdle
    /\ stage = IdleStage
    /\ exchange = NoExchange
    /\ \E rows \in SUBSET [user : PersonaUsers, persona : PersonaIds] :
          db = [personas |-> PersonaIds, user_personas |-> rows]

SpecPersona == InitPersona /\ [][NextPersona]_vars

(***************************************************************************)
(* Claims.                                                                 *)
(***************************************************************************)
TypeIndex(t) == CHOOSE i \in 1..Len(EXPORT_ENDPOINTS) : EXPORT_ENDPOINTS[i] = t

\* The for loop of extract_all_data is past entity type t.
Done(t) == TypeIndex(t) < typeIdx

OpsSet == {ops[i] : i \in 1..Len(ops)}

\* The parent id a payload record carries, under either spelling; 0: none.
CarriedParent(rec) ==
    IF "parentId" \in DOMAIN rec THEN rec.parentId
    ELSE IF "parent_id" \in DOMAIN rec THEN rec.parent_id ELSE 0

\* The rows the stage created from records that carry a parent id.
ReplyRows == {r \in dbPosts : r.migrated /\ CarriedParent(r.rec) # 0}

\* C1 (SpecPosts). Reply remapping: every reply the posts stage creates is
\* stored with the id the target assigned to a top-level post that the same
\* run created from the record whose source id is the reply's source parent
\* id; the stored parent is that new id, not the source's id.
C1_ReplyRemapping ==
    \A r \in ReplyRows :
        \E q \in dbPosts :
            /\ q.id = r.parent_id
            /\ q.migrated
            /\ q.pass = 1
            /\ q.parent_id = 0
            /\ CarriedParent(q.rec) = 0
            /\ GetN(q.rec, "id") = CarriedParent(r.rec)

\* A reply was created whose parent got a new id different from its source
\* id.
C1_Witness ==
    \E r \in ReplyRows : r.parent_id # CarriedParent(r.rec)

\* The replies (by position in the second pass) that the second pass has
\* dealt with.
RepliesSeen ==
    IF postPc = "done" THEN 1..Len(replies(posts_data))
    ELSE IF postPc = "second" THEN 1..(postIdx - 1) ELSE {}

\* The replies seen whose source parent id is no key of the remap table.
OrphansSeen ==
    {i \in RepliesSeen :
        CarriedParent(replies(posts_data)[i]) \notin DOMAIN id_mapping}

\* C2 (SpecPosts). Orphan reply rejection: a reply whose source parent id
\* is not a key of the remap table is never created and is counted as
\* skipped/failed; no row created from a record that carries a parent id
\* has a null parent or a parent that is not a row of the table.
C2_OrphanReplyRejected ==
    /\ \A r \in ReplyRows :
          /\ r.parent_id # 0
          /\ \E q \in dbPosts : q.id = r.parent_id
    /\ \A i \in OrphansSeen :
          ~ \E r \in dbPosts : r.migrated /\ r.pass = 2 /\ r.idx = i
    /\ skipped >= Cardinality(OrphansSeen)
    /\ \A r \in dbPosts : r.migrated /\ r.pass = 2 => r \in ReplyRows

\* The stage ended having rejected a reply of a known author because its
\* parent is not in the remap table, while another reply was created.
C2_Witness ==
    /\ postPc = "done"
    /\ \E i \in OrphansSeen : PostUser(variant, replies(posts_data)[i]) # {}

\* The snapshot file did not exist when the run started: it is missing, or
\* this run wrote it without having had a file to copy aside.
NoSnapshotAtStart ==
    \/ snapshot.kind = "missing"
    \/ "write_snapshot" \in OpsSet /\ DOMAIN backups = {}

\* C3 (Spec). Critical-entity gate: in a run of main() in which the
\* extraction of users failed and no snapshot file existed, the run, once
\* extraction is over, has ended with exit code 1, and the schema reset was
\* never executed: no drop_all, no seed provisioning, no load stage, and no
\* create_all other than the one that follows the creation of a database
\* that did not exist.
C3_CriticalGate ==
    ("users" \in FailedTypes /\ NoSnapshotAtStart) =>
        /\ "drop_all" \notin OpsSet
        /\ OpsSet \subseteq {"prompt", "backup_database", "create_database",
                             "create_all", "read_snapshot"}
        /\ \A i \in 1..Len(ops) :
              ops[i] = "create_all" => i > 1 /\ ops[i - 1] = "create_database"
        /\ pc \notin {"extract", "extract_returned"} =>
              pc = "exit" /\ exitCode = 1

\* Users failed, there is no snapshot, and the run has ended with code 1.
C3_Witness ==
    /\ "users" \in FailedTypes
    /\ snapshot.kind = "missing"
    /\ pc = "exit"
    /\ exitCode = 1

\* C4 (SpecExtract). extract_all_data returns no payload and an error
\* exactly when users or sections is among the failed entity types; when
\* only other types failed it returns the payload and no error.
C4_FailedIffCritical ==
    pc = "extract_returned" =>
        /\ (extracted.data.kind = "None") <=>
              (FailedTypes \cap {"users", "sections"} # {})
        /\ (extracted.error # "") <=> (extracted.data.kind = "None")
        /\ extracted.data.kind \in {"None", "dict"}
        /\ extracted.data.kind = "dict" =>
              extracted.data.val = all_data /\ "_metadata" \in DOMAIN all_data

\* A non-critical type failed and the payload was returned all the same.
C4_Witness ==
    /\ pc = "extract_returned"
    /\ FailedTypes # {}
    /\ FailedTypes \cap {"users", "sections"} = {}
    /\ extracted.data.kind = "dict"

\* The non-empty pages of a table of n rows.
PagesOf(n) == (n + per_page - 1) \div per_page

\* C5 (SpecExtract). Pagination termination: for a paginated entity type
\* whose requests met no terminal failure and no exhausted retries, the
\* Extractor holds exactly the source's records in page order, has received
\* the empty page that follows the last non-empty one, made its last
\* request for that empty page, and recorded no failure; and no request is
\* ever issued for a type after an empty page of it was received.
C5_PaginationTermination ==
    /\ "empty" \notin lateReq
    /\ \A t \in paginated_types :
          (Done(t) /\ stopSeen[t] \cap {"terminal", "exhausted"} = {}) =>
              /\ t \notin FailedTypes
              /\ "empty" \in stopSeen[t]
              /\ t \in DOMAIN all_data
              /\ all_data[t] = ExportAll(t, srcTotal[t])
              /\ gType = t => gPage = PagesOf(srcTotal[t]) + 1

\* Two full pages and then the empty third page: 2 * per_page records.
C5_Witness ==
    \E t \in paginated_types :
        /\ Done(t)
        /\ srcTotal[t] = 2 * per_page
        /\ gType = t
        /\ gPage = 3
        /\ lastResp = "ok"
        /\ t \notin FailedTypes
        /\ Len(all_data[t]) = 2 * per_page

\* C6 (SpecExtract). The page loop stops at has_next = false: no request is
\* issued for an entity type after a page of it was received with
\* has_next = false.
C6_StopsOnNoNext == "no_next" \notin lateReq

\* C7 (SpecExtract). Retry policy: a page of a paginated type gets at most
\* 3 requests; a transient failure (504 or timeout, in any mix) before the
\* third is retried on the same page; the third records the type as failed
\* and ends its requests; a failure by transient errors is recorded only
\* after 3 attempts on that very page, whatever happened on earlier pages;
\* and the retry counter counts the transient failures of the current page
\* only, starting from zero on every new page.
C7_RetryPolicy ==
    /\ gType \in paginated_types => attempts <= 3
    /\ "exhausted" \notin lateReq
    /\ \A t \in paginated_types :
          "exhausted" \in stopSeen[t] => t \in FailedTypes /\ Done(t)
    /\ (gType \in paginated_types /\ lastResp \in Transient) =>
          IF attempts < 3
          THEN /\ gType \notin FailedTypes
               /\ pc = "extract" /\ CurType = gType /\ page = gPage
          ELSE /\ gType \in FailedTypes
               /\ failPage[gType] = gPage
               /\ transients = 3
    /\ (pc = "extract" /\ typeIdx <= Len(EXPORT_ENDPOINTS)
           /\ CurType \in paginated_types) =>
          retry_count = IF gType = CurType /\ gPage = page
                        THEN transients ELSE 0

\* A page failed after 3 transient failures of its own although an earlier
\* page of the same type had taken a transient failure too.
C7_Witness ==
    /\ priorTransient
    /\ gPage > 1
    /\ attempts = 3
    /\ transients = 3
    /\ gType \in FailedTypes

\* C8 as stated (SpecExtract): a terminal failure on a page means exactly
\* one request was issued for that page, the type is recorded as failed and
\* its pagination has stopped.
C8_ExactlyOneRequest ==
    /\ "terminal" \notin lateReq
    /\ (gType \in paginated_types /\ lastResp \in Terminal) =>
          /\ attempts = 1
          /\ gType \in FailedTypes
          /\ Done(gType)

\* C8 as amended (SpecExtract): a terminal failure on a page is never
\* retried: it is the last request for that entity type, the only requests
\* the page got besides it are those answered by transient failures (so
\* exactly one when there was none), the type is recorded as failed at that
\* page and its pagination has stopped.
C8_TerminalNotRetried ==
    /\ "terminal" \notin lateReq
    /\ (gType \in paginated_types /\ lastResp \in Terminal) =>
          /\ attempts = transients + 1
          /\ transients < 3
          /\ gType \in FailedTypes
          /\ failPage[gType] = gPage
          /\ Done(gType)

\* A terminal failure answered the retry of a transient failure.
C8_Witness ==
    /\ gType \in paginated_types
    /\ lastResp \in Terminal
    /\ transients = 1
    /\ attempts = 2
    /\ gType \in FailedTypes

\* C9 (SpecExtract). Failure isolation: when extract_all_data returns, a
\* request was issued for every entity type of EXPORT_ENDPOINTS, whatever
\* failed; and every type the loop is past and that is not recorded as
\* failed holds exactly the records of the source, as in a run without
\* failures.
C9_FailureIsolation ==
    /\ pc = "extract_returned" => requested = Types
    /\ \A t \in Types : Done(t) => t \in requested
    /\ \A t \in Types :
          (Done(t) /\ t \notin FailedTypes) =>
              /\ t \in DOMAIN all_data
              /\ all_data[t] = ExportAll(t, srcTotal[t])

\* The first type (single-shot) failed and the types after it were fetched.
C9_Witness ==
    /\ pc = "extract_returned"
    /\ "sections" \in FailedTypes
    /\ \E t \in Types : t \in DOMAIN all_data /\ Len(all_data[t]) > 0

\* The records of the pages before the failed page of type t.
Retained(t) == ExportAll(t, Min(srcTotal[t], (failPage[t] - 1) * per_page))

Returned == pc \notin {"start", "authenticate", "extract"}

\* C10 as stated (Spec): when page k > 1 of a paginated type failed, the
\* records of pages 1..k-1 are in the result extract_all_data returns.
C10_FetchedPagesRetained ==
    \A t \in paginated_types :
        (Returned /\ failPage[t] > 1) =>
            /\ extracted.data.kind = "dict"
            /\ t \in DOMAIN extracted.data.val
            /\ extracted.data.val[t] = Retained(t)

\* C10 as amended (Spec): when page k > 1 of a paginated type failed and
\* neither users nor sections is among the failed types, the records of
\* pages 1..k-1 are in the result extract_all_data returns, in the snapshot
\* main() writes and in the payload main() goes on to filter and load.
C10_RetainedUnlessCritical ==
    \A t \in paginated_types :
        (Returned /\ failPage[t] > 1
             /\ FailedTypes \cap {"users", "sections"} = {}) =>
            /\ extracted.data.kind = "dict"
            /\ t \in DOMAIN extracted.data.val
            /\ extracted.data.val[t] = Retained(t)
            /\ pc # "extract_returned" =>
                  /\ snapshot.kind = "dict"
                  /\ snapshot.val[t] = Retained(t)
                  /\ "write_snapshot" \in OpsSet
            /\ pc \in {"validate", "filter"} =>
                  main_all_data.val[t] = Retained(t)

\* Topics failed on its second page and the run loaded what was fetched.
C10_Witness ==
    /\ pc = "done"
    /\ failPage["topics"] = 2
    /\ Len(snapshot.val["topics"]) = per_page

\* main() has filtered its payload.
Filtered == pc \in {"drop_all", "create_all", "initUsers", "load", "done"}

\* The payload given to the filter (the snapshot main() wrote or read) and
\* the payload the filter returned.
FilterIn == snapshot.val

FilterOut == main_all_data.val

Records(d, k) == IF k \in DOMAIN d THEN {d[k][i] : i \in 1..Len(d[k])} ELSE {}

SeedUsers == {"admin", "user", "niko"}

\* C11 (SpecFilter). Default-data filter: the filtered payload holds no
\* user whose uid is a seed uid, no section whose abbreviation is a seed
\* abbreviation, no topic whose page path is a seed path, and no microblog
\* whose author (userUid, or the uid of the nested user) is a seed uid.
C11_DefaultDataFiltered ==
    Filtered =>
        /\ \A u \in Records(FilterOut, "users") : GetS(u, "uid") \notin SeedUsers
        /\ \A x \in Records(FilterOut, "sections") :
              GetS(x, "abbreviation") \notin {"CSA", "CSP", "Robotics", "CSSE"}
        /\ \A t \in Records(FilterOut, "topics") :
              /\ GetS(t, "pagePath") \notin DEFAULT_DATA.topics
              /\ GetS(t, "page_path") \notin DEFAULT_DATA.topics
        /\ \A m \in Records(FilterOut, "microblogs") :
              /\ GetS(m, "userUid") \notin SeedUsers
              /\ GetS(m, "userUid") = "" => NestedUid(m) \notin SeedUsers

\* The input held a seed user and a microblog of a seed author, the output
\* still holds a user and a microblog.
C11_Witness ==
    /\ Filtered
    /\ \E u \in Records(FilterIn, "users") : u.uid = "admin"
    /\ \E m \in Records(FilterIn, "microblogs") : GetS(m, "userUid") = "admin"
    /\ Records(FilterOut, "users") # {}
    /\ Records(FilterOut, "microblogs") # {}

\* C12 (SpecFilter). The filtered payload holds no post whose userUid is a
\* seed uid.
C12_SeedPostsDropped ==
    Filtered =>
        \A p \in Records(FilterOut, "posts") : GetS(p, "userUid") \notin SeedUsers

\* The seed rule of a collection, as the specification states it.
SeedRecord(k, r) ==
    CASE k = "users" -> GetS(r, "uid") \in SeedUsers
      [] k = "sections" -> GetS(r, "abbreviation") \in DEFAULT_DATA.sections
      [] k = "topics" ->
            OrS(GetS(r, "pagePath"), GetS(r, "page_path")) \in DEFAULT_DATA.topics
      [] OTHER -> OrS(GetS(r, "userUid"), NestedUid(r)) \in SeedUsers

RECURSIVE IsSubSeq(_, _)
\* a is b with some elements left out.
IsSubSeq(a, b) ==
    IF a = << >> THEN TRUE
    ELSE IF b = << >> THEN FALSE
    ELSE IF a[1] = b[1] THEN IsSubSeq(Tail(a), Tail(b))
    ELSE IsSubSeq(a, Tail(b))

\* C13 (SpecFilter). Filter pass-through: the filtered payload has the keys
\* of the input; every collection other than users, sections, topics,
\* microblogs and posts is the input's collection; and a filtered
\* collection is the input's collection with records left out, holding, in
\* their original order, all the records that match no seed rule.
C13_PassThrough ==
    Filtered =>
        /\ DOMAIN FilterOut = DOMAIN FilterIn
        /\ \A k \in DOMAIN FilterIn \ FilteredKeys : FilterOut[k] = FilterIn[k]
        /\ \A k \in DOMAIN FilterIn \cap FilteredKeys :
              /\ IsSubSeq(FilterOut[k], FilterIn[k])
              /\ IsSubSeq(SelectSeq(FilterIn[k], LAMBDA r : ~SeedRecord(k, r)),
                          FilterOut[k])

\* The unfiltered collections, with records that carry seed identities, and
\* the metadata went through; one filtered collection lost a record and
\* another kept its two records in their order.
C13_Witness ==
    /\ Filtered
    /\ DOMAIN PassThrough \subseteq DOMAIN FilterOut
    /\ FilterOut["feedback"] = PassThrough["feedback"]
    /\ \E k \in DOMAIN FilterIn \cap FilteredKeys :
          /\ Len(FilterOut[k]) = 2
          /\ FilterOut[k][1] # FilterOut[k][2]
          /\ FilterOut[k] = FilterIn[k]
    /\ \E k \in DOMAIN FilterIn \cap FilteredKeys :
          /\ Len(FilterOut[k]) = 1
          /\ Len(FilterIn[k]) = 2

\* The keys a table holds.
KeysOf(table, kind) == {RowKey(kind, row) : row \in DOMAIN table}

\* The stage has created a row from one of the first n records of its
\* payload whose key is that of record i.
CreatedBefore(i) ==
    \E j \in 1..(i - 1) :
        /\ stage.outcomes[j] = "created"
        /\ IF stage.kind = "user_personas"
           THEN /\ GetS(stage.data[j], "userUid") = GetS(stage.data[i], "userUid")
                /\ GetS(stage.data[j], "personaAlias") =
                       GetS(stage.data[i], "personaAlias")
           ELSE NaturalKey(stage.kind, stage.data[j]) =
                    NaturalKey(stage.kind, stage.data[i])

\* The key of record i was in the table when the stage was called.
HeldBefore(i) ==
    IF stage.kind = "user_personas"
    THEN [user |-> GetS(stage.data[i], "userUid"),
          persona |-> GetS(stage.data[i], "personaAlias")]
             \in DOMAIN stage.before.user_personas
    ELSE NaturalKey(stage.kind, stage.data[i])
             \in KeysOf(stage.before[stage.kind], stage.kind)

\* C14 (SpecLoad). Idempotent re-import: while and after a stage of
\* sections, users, topics, personas or user-persona associations is run a
\* second time with the payload it has just loaded, the target's table of
\* that type is what the first run left, with every row held once; no
\* record is created.
C14_IdempotentReimport ==
    stage.run = 2 =>
        /\ db[stage.kind] = stage.before[stage.kind]
        /\ db = stage.before
        /\ \A i \in 1..Len(stage.outcomes) : stage.outcomes[i] # "created"

\* The second run of a two-record payload has ended; the first run had
\* created rows from it, which the second run found.
C14_Witness ==
    /\ stage.run = 2
    /\ stage.pc = "done"
    /\ Len(stage.data) = 2
    /\ stage.outcomes = << "exists", "exists" >>
    /\ \A i \in 1..2 :
          NaturalKey(stage.kind, stage.data[i])
              \notin KeysOf(SeedTarget[stage.kind], stage.kind)
    /\ stage.kind \in {"sections", "users", "topics", "personas"}

\* C15 (SpecLoad). Natural-key uniqueness: after any sequence of stages
\* with any payloads, no table holds a row twice or two rows with the same
\* abbreviation, uid, page path, alias or (user, persona) pair; and a
\* record whose key the table already holds takes the skip branch: it is
\* not created and adds nothing to the errors (nor to the Import Service's
\* failed count).
C15_NaturalKeyUnique ==
    /\ \A kind \in Kinds :
          \A r1 \in DOMAIN db[kind] :
              /\ db[kind][r1] = 1
              /\ kind # "user_personas" =>
                    \A r2 \in DOMAIN db[kind] :
                        RowKey(kind, r1) = RowKey(kind, r2) => r1 = r2
    /\ \A i \in 1..Len(stage.outcomes) :
          (HeldBefore(i) \/ CreatedBefore(i)) =>
              stage.outcomes[i] = "exists"
    /\ stage.errors =
          Cardinality({i \in 1..Len(stage.outcomes) : stage.outcomes[i] = "raised"})
    /\ stage.variant = "api" =>
          stage.skipped = Cardinality({i \in 1..Len(stage.outcomes) :
                              stage.outcomes[i] \in {"raised", "unresolved"}})

\* A payload repeated a key that the target did not hold: the first record
\* was created, the second skipped, without an error.
C15_Witness ==
    /\ stage.pc = "done"
    /\ stage.run = 1
    /\ stage.outcomes = << "created", "exists" >>
    /\ stage.errors = 0
    /\ stage.loaded = 1
    /\ stage.variant = "api" => stage.skipped = 0

\* The section abbreviations a user's record names.
Referenced(user_data) ==
    IF "sections" \in DOMAIN user_data
    THEN {user_data.sections[i].abbreviation : i \in 1..Len(user_data.sections)}
    ELSE {}

\* C16 (SpecLoad). Graceful dependency degradation: the users stage creates
\* every user of its payload whose uid the target does not hold yet, with
\* exactly those of its referenced sections that exist in the target; a
\* reference to a section that does not exist raises no error and does not
\* keep the stage from the records that follow.
C16_UserWithoutSection ==
    stage.kind = "users" =>
        /\ \A i \in 1..Len(stage.outcomes) :
              LET u == stage.data[i]
              IN  (~HeldBefore(i) /\ ~CreatedBefore(i) /\ GetS(u, "uid") # "") =>
                      /\ stage.outcomes[i] = "created"
                      /\ \E row \in DOMAIN db.users :
                            /\ row.uid = u.uid
                            /\ row.sections =
                                  Referenced(u) \cap
                                      KeysOf(stage.before.sections, "sections")
        /\ stage.errors = 0
        /\ stage.pc = "done" => Len(stage.outcomes) = Len(stage.data)
        /\ stage.pc = "run" => stage.idx = Len(stage.outcomes) + 1

\* The first user named only a section the target does not hold and was
\* created without a section; the user after it was created too.
C16_Witness ==
    /\ stage.kind = "users"
    /\ stage.pc = "done"
    /\ stage.run = 1
    /\ stage.outcomes = << "created", "created" >>
    /\ stage.data[1].uid = "bob"
    /\ "MATH" \notin KeysOf(db.sections, "sections")
    /\ \E row \in DOMAIN db.users : row.uid = "bob" /\ row.sections = {}
    /\ \E row \in DOMAIN db.users : row.uid = "carol" /\ row.sections = {"CSA"}

\* The keys of the request body among the given stages.
PresentIn(order) == SelectSeq(order, LAMBDA k : k \in DOMAIN main_all_data.val)

\* C17 as stated (SpecBulk): a bulk import that completes has run the
\* stages of the keys present in the body in the order Sections, Users,
\* Topics, Microblogs, Posts, Personas, User-Persona associations,
\* Classrooms, Feedback, Study.
C17_BulkOrderOfSection45 ==
    pc = "bulk_200" =>
        ops = PresentIn(<< "sections", "users", "topics", "microblogs", "posts",
                           "personas", "user_personas", "classrooms",
                           "feedback", "study" >>)

\* C17 as amended (SpecBulk): a bulk import that completes has run the
\* stages of the keys present in the body, each once, in the order
\* Sections, Users, Topics, Personas, User-Persona associations,
\* Microblogs, Posts, Classrooms, Feedback, Study.
C17_BulkOrderOfHandler ==
    pc = "bulk_200" =>
        ops = PresentIn(<< "sections", "users", "topics", "personas",
                           "user_personas", "microblogs", "posts",
                           "classrooms", "feedback", "study" >>)

\* A body with all ten keys was imported.
C17_Witness ==
    /\ pc = "bulk_200"
    /\ Len(ops) = 10
    /\ ops[4] = "personas"
    /\ ops[6] = "microblogs"

\* C18: after any sequence of saves, every content the snapshot path has
\* held is still on disk, as the current snapshot or as one of the
\* timestamp-suffixed backup copies.
C18_SnapshotsNeverDestroyed ==
    \A c \in held :
        \/ c = snapshot
        \/ \E t \in DOMAIN backups : backups[t] = c

\* Authentication failed in this step of main(): the step leaves the
\* authentication for something else than the extraction.
AuthenticationFails ==
    pc = "authenticate" /\ pc' \notin {"authenticate", "extract"}

\* The step of main() that follows an extraction reported as failed.
ExtractionFailed ==
    pc = "extract_returned" /\ pc' # pc /\ extracted.error # ""

\* C19: whenever authentication fails, by an HTTP error status or by a
\* request that raises before a response exists, or extraction is reported
\* as failed, the step reads the snapshot file, and when the file exists the
\* run goes on with the snapshot's content as its payload.
C19_SnapshotFallback ==
    [][ (AuthenticationFails \/ ExtractionFailed) =>
            /\ ops' = Append(ops, "read_snapshot")
            /\ snapshot.kind # "missing" =>
                  /\ pc' = "validate"
                  /\ main_all_data' = snapshot ]_vars

\* The snapshot file kinds that are absent or not a well-formed mapping.
NotAMapping == {"missing", "malformed", "list"}

\* C20: in a run that read the snapshot file, when the file does not exist
\* or its content is not a well-formed mapping, the load returned an error
\* value, and the run ends through sys.exit(1) after its diagnostic, never
\* by an exception that nothing handles.
C20_SnapshotLoadErrors ==
    ("read_snapshot" \in OpsSet /\ snapshot.kind \in NotAMapping) =>
        /\ read_data_from_json(snapshot).error # ""
        /\ pc \in {"validate", "exit"}
        /\ pc = "exit" => exitCode = 1

\* The snapshot safety net is in place before position i of ops: the
\* freshly extracted payload was saved to the snapshot file, or the
\* snapshot file was loaded without an error.
SafetyNetBefore(i) ==
    \E j \in 1..(i - 1) :
        \/ ops[j] = "write_snapshot" /\ snapshot = extracted.data
        \/ /\ ops[j] = "read_snapshot"
           /\ read_data_from_json(snapshot).error = ""
           /\ ~read_data_from_json(snapshot).raised
           /\ snapshot.kind = "dict"

\* C21 (Spec). In every run of main(), db.drop_all() is preceded by a
\* completed save of the freshly extracted payload or by a successful load
\* of the snapshot file.
C21_DropAfterSafetyNet ==
    \A i \in 1..Len(ops) : ops[i] = "drop_all" => SafetyNetBefore(i)

\* The schema was dropped in a run that fell back to the snapshot file.
C21_Witness ==
    /\ "drop_all" \in OpsSet
    /\ "read_snapshot" \in OpsSet

\* How many times the operator was prompted.
Prompts == Cardinality({i \in 1..Len(ops) : ops[i] = "prompt"})

\* The state the run started from is the state it is in: nothing was
\* requested, nothing was written to the snapshot file or to the target.
NothingChanged ==
    /\ ops = << "prompt" >>
    /\ requested = {}
    /\ backups = << >>
    /\ held = {snapshot} \ {MissingFile}
    /\ main_all_data = NoneData

\* C22 (Spec). Confirmation gate: a target without tables is never
\* prompted for; a target whose tables were detected is prompted for
\* exactly once (the inspection of the target failing ends the run with
\* code 1 before anything else); after an answer other than y or Y the run
\* has exited with code 0 and changed nothing.
C22_ConfirmationGate ==
    /\ Prompts <= 1
    /\ ~hasTables => Prompts = 0
    /\ (hasTables /\ pc # "start") =>
          \/ Prompts = 1
          \/ ops = << >> /\ pc = "exit" /\ exitCode = 1
    /\ (Prompts = 1 /\ answer \notin {"y", "Y"}) =>
          /\ pc = "exit"
          /\ exitCode = 0
          /\ NothingChanged

\* The operator declined over a target with tables and an old snapshot.
C22_Witness ==
    /\ hasTables
    /\ answer = "n"
    /\ pc = "exit"
    /\ exitCode = 0
    /\ snapshot.kind = "dict"

\* The run of main() is over.
Ended == pc \in {"exit", "done", "unhandled"}

\* main() returned after its last load stage.
LoadCompleted ==
    /\ pc = "done"
    /\ "initUsers" \in OpsSet
    /\ StagesRun = StagesFor(main_all_data.val)

\* The operator answered the prompt with something else than y.
Declined == ops = << "prompt" >> /\ lower(answer) # "y"

\* The operations that destroy or change the content of the target.
Destructive == {"drop_all", "initUsers"} \cup {LoadOrder[i] : i \in 1..Len(LoadOrder)}

\* Authentication failed (with an HTTP error, after which the snapshot was
\* looked for, or with an exception) or the extraction was reported as
\* failed, and there is no snapshot file to fall back to.
FailedWithoutFallback ==
    /\ snapshot.kind = "missing"
    /\ "read_snapshot" \in OpsSet \/ pc = "unhandled"

\* C23 (Spec). Exit codes of main(): the run ends with code 0 exactly when
\* the load completed or the operator declined; when authentication or the
\* extraction of a critical entity failed and no snapshot exists, the run
\* has ended with code 1 and nothing destructive was done to the target; a
\* run in which an exception escaped the try block of the load has ended
\* with code 1.
C23_ExitCodes ==
    /\ Ended <=> exitCode # -1
    /\ exitCode = 0 <=> (LoadCompleted \/ (Ended /\ Declined))
    /\ FailedWithoutFallback =>
          /\ Ended
          /\ exitCode = 1
          /\ OpsSet \cap Destructive = {}
    /\ "print_exc" \in OpsSet => pc = "exit" /\ exitCode = 1

\* An exception escaped the users stage and the run ended with code 1.
C23_Witness ==
    /\ "print_exc" \in OpsSet
    /\ "users" \in OpsSet
    /\ exitCode = 1

\* C24 (SpecApi). Every export and import endpoint requires the
\* administrator's privilege: a request by a user whose role is not Admin
\* is answered with 403 and no record, and leaves the database as it was.
C24_AdminOnly ==
    [][ (exchange'.role \notin {"", "Admin"} /\ <<exchange, db>>' # <<exchange, db>>) =>
            /\ exchange'.status = 403
            /\ exchange'.records = {}
            /\ db' = db ]_vars

\* A user who is not an administrator asked for the users of a target
\* that holds imported users, and was refused.
C24_Witness ==
    /\ exchange.role = "User"
    /\ exchange.method = "GET"
    /\ exchange.path = "users"
    /\ exchange.status = 403
    /\ \E row \in DOMAIN db.users : row.uid = "bob"

\* The uid of the target user a row of the posts table is attached to.
AttachedUid(row) == (CHOOSE u \in TargetUsers : u.id = row.user_id).uid

\* C26 (SpecPosts). Natural-key reference invariant: every post that the
\* posts stage created is attached to the target user whose uid is the
\* author uid (userUid) of the source record.
C26_AuthorByNaturalKey ==
    \A row \in dbPosts :
        row.migrated => AttachedUid(row) = GetS(row.rec, "userUid")

\* What a run of the posts stage made of its payload: for every created
\* post its position in its pass, the uid of the user it is attached to
\* and the position of the top-level post it replies to (0: none).
ActualMade ==
    { [pass |-> row.pass, idx |-> row.idx, uid |-> AttachedUid(row),
       parent |-> IF row.parent_id = 0 THEN 0
                  ELSE (CHOOSE q \in dbPosts : q.id = row.parent_id).idx] :
        row \in {r \in dbPosts : r.migrated} }

\* The top-level records variant v creates when no create() fails.
MadeTop(v) ==
    {i \in 1..Len(top_level(posts_data)) :
        PostUser(v, top_level(posts_data)[i]) # {}}

\* The top-level post that the remap table of variant v holds for the old
\* id n once the first pass is over: the last one created with that id.
MappedTop(v, n) ==
    LET hits == {i \in MadeTop(v) : GetN(top_level(posts_data)[i], "id") = n}
    IN  IF n = 0 \/ hits = {} THEN 0
        ELSE CHOOSE i \in hits : \A j \in hits : j <= i

\* What variant v makes of the payload when no create() fails.
Made(v) ==
    { [pass |-> 1, idx |-> i,
       uid |-> (CHOOSE u \in PostUser(v, top_level(posts_data)[i]) : TRUE).uid,
       parent |-> 0] : i \in MadeTop(v) }
    \cup
    { [pass |-> 2, idx |-> j,
       uid |-> (CHOOSE u \in PostUser(v, replies(posts_data)[j]) : TRUE).uid,
       parent |-> MappedTop(v, OrN(GetN(replies(posts_data)[j], "parentId"),
                                  GetN(replies(posts_data)[j], "parent_id")))] :
        j \in {k \in 1..Len(replies(posts_data)) :
                 /\ PostUser(v, replies(posts_data)[k]) # {}
                 /\ MappedTop(v, OrN(GetN(replies(posts_data)[k], "parentId"),
                                     GetN(replies(posts_data)[k], "parent_id"))) # 0} }

\* C25 (SpecPosts). The Import Service and the script implement the same
\* load logic: when a run of the posts stage in which no create() failed is
\* over, the posts it created, with the users and the parents they are
\* attached to, are those the other implementation creates from the same
\* payload on the same target.
C25_SameLoadLogic ==
    (postPc = "done" /\ ActualMade = Made(variant)) =>
        Made("script") = Made("api")

\* The stage order of the Load Pipeline: Sections, Users, Topics,
\* Microblogs, Posts, Personas, User-Persona associations, Classrooms,
\* Feedback, Study records.
PipelineOrder ==
    << "sections", "users", "topics", "microblogs", "posts", "personas",
       "user_personas", "classrooms", "feedback", "study" >>

PipelinePlaces ==
    [op \in {PipelineOrder[k] : k \in 1..Len(PipelineOrder)} |->
        CHOOSE k \in 1..Len(PipelineOrder) : PipelineOrder[k] = op]

\* The place of a stage in PipelineOrder; 0 for what is not a stage.
PipelinePlace(op) ==
    IF op \in DOMAIN PipelinePlaces THEN PipelinePlaces[op] ELSE 0

\* C27 (Spec). The load stages of main() run in the order of the Load
\* Pipeline, each at most once, after drop_all, create_all and the seed
\* provisioning in that order, and one after the other: what follows the
\* call of a stage is the call of a later stage, or the report of the
\* exception that ended the run.
C27_StageOrder ==
    \A j \in 1..Len(ops) :
        PipelinePlace(ops[j]) # 0 =>
            /\ \A i \in 1..(j - 1) : PipelinePlace(ops[i]) < PipelinePlace(ops[j])
            /\ \E c \in 3..(j - 1) :
                  SubSeq(ops, c - 2, c) = << "drop_all", "create_all", "initUsers" >>
            /\ j < Len(ops) =>
                  \/ PipelinePlace(ops[j + 1]) > PipelinePlace(ops[j])
                  \/ ops[j + 1] = "print_exc" /\ j + 1 = Len(ops)

\* A run that completed after the posts stage and the user-persona stage,
\* among others, were called.
C27_Witness ==
    /\ pc = "done"
    /\ {"sections", "users", "posts", "user_personas", "study"}
          \subseteq OpsSet

\* How many records of the running (or last) stage had the outcome o.
OutcomeCount(o) ==
    Cardinality({i \in 1..Len(stage.outcomes) : stage.outcomes[i] = o})

\* C28 (SpecLoad). Per-record failure isolation: in every stage an
\* exception raised while one record is created is counted in the stage's
\* tally and, in the Import Service, recorded in errors[]; the stage goes
\* on, so that a stage that is over has processed every record it was
\* given.
C28_FailureIsolation ==
    /\ stage.skipped >= OutcomeCount("raised")
    /\ stage.variant = "api" => stage.errors = OutcomeCount("raised")
    /\ stage.pc = "done" => Len(stage.outcomes) = Len(stage.data)

\* C29 (SpecLoad). Stage tally accounting: when a stage is over, created
\* plus skipped/failed is the number of records it was given, a record
\* that already exists being counted as skipped.
C29_TallyAccounting ==
    stage.pc = "done" =>
        /\ stage.loaded + stage.skipped = Len(stage.data)
        /\ stage.loaded = OutcomeCount("created")
        /\ stage.skipped >= OutcomeCount("exists")

\* C30 (SpecMicroblogs). Microblog stage: every microblog the stage
\* creates is attached to a user of the target and has a text; a record
\* whose author is not found or whose content is empty is skipped and
\* counted; a record whose topic is not found is created without a topic.
C30_MicroblogStage ==
    /\ \A row \in DOMAIN db.microblogs :
          /\ Exists(db.users, "users", row.user)
          /\ row.content # ""
          /\ row.topic # "" => Exists(db.topics, "topics", row.topic)
    /\ \A i \in 1..Len(stage.outcomes) :
          LET mb_data == stage.data[i]
          IN  /\ GetS(mb_data, "content") = "" =>
                    stage.outcomes[i] \in {"unresolved", "empty"}
              /\ ( /\ GetS(mb_data, "userUid") = "bob"
                   /\ GetS(mb_data, "topicPath") = "/nope" ) =>
                    stage.outcomes[i] = "created"
    /\ stage.skipped >= OutcomeCount("unresolved") + OutcomeCount("empty")

\* The uid record r names resolves to a user of the target.
Resolves(r, field, tables) ==
    GetS(r, field) # "" /\ Exists(tables.users, "users", GetS(r, field))

\* The number of rows of a table, a row held twice counting twice.
RECURSIVE BagSize(_)
BagSize(table) ==
    IF DOMAIN table = {} THEN 0
    ELSE LET row == CHOOSE x \in DOMAIN table : TRUE
         IN  table[row] + BagSize([x \in DOMAIN table \ {row} |-> table[x]])

\* C31 (SpecOpaque). Study stage: a study record whose user uid is absent
\* or does not resolve to a user of the target is never passed over for
\* that; when the record is otherwise accepted it is created with a null
\* user reference, and every created record is counted as created.
C31_StudyOrphansKept ==
    stage.kind = "study" =>
        /\ \A i \in 1..Len(stage.outcomes) :
              ~Resolves(stage.data[i], "userUid", db) =>
                  /\ stage.outcomes[i] # "unresolved"
                  /\ StudyCreate(stage.data[i]) = "ok" =>
                        /\ stage.outcomes[i] = "created"
                        /\ [user |-> "", topic |-> stage.data[i].topic]
                               \in DOMAIN db.study
        /\ stage.loaded = OutcomeCount("created")
        /\ BagSize(db.study) =
              BagSize(stage.before.study) + stage.loaded

C31_Witness ==
    /\ stage.kind = "study"
    /\ stage.pc = "done"
    /\ \E i \in 1..Len(stage.outcomes) :
          /\ "userUid" \in DOMAIN stage.data[i]
          /\ ~Resolves(stage.data[i], "userUid", db)
          /\ stage.outcomes[i] = "created"
    /\ \E i \in 1..Len(stage.outcomes) :
          /\ "userUid" \notin DOMAIN stage.data[i]
          /\ stage.outcomes[i] = "created"

\* The student uids of record r that name a user of the target.
ResolvedStudents(r, tables) ==
    IF "studentUids" \in DOMAIN r
    THEN {u \in {r.studentUids[k] : k \in 1..Len(r.studentUids)} :
             \E row \in DOMAIN tables.users : row.uid = u}
    ELSE {}

\* C32 (SpecOpaque). Classroom stage: a classroom whose owner uid does not
\* resolve to a user of the target is passed over and no row is created for
\* it; a classroom that is created holds exactly the students whose uids
\* resolve, and a student uid that does not resolve does not make the
\* classroom fail.
C32_ClassroomOwnerAndStudents ==
    stage.kind = "classrooms" =>
        /\ \A i \in 1..Len(stage.outcomes) :
              LET r == stage.data[i]
              IN  /\ ~Resolves(r, "ownerUid", db) =>
                        stage.outcomes[i] = "unresolved"
                  /\ (Resolves(r, "ownerUid", db)
                          /\ ClassroomCreate(r) = "ok") =>
                        /\ stage.outcomes[i] = "created"
                        /\ [name |-> r.name, owner |-> r.ownerUid,
                            students |-> ResolvedStudents(r, db)]
                               \in DOMAIN db.classrooms
        /\ \A row \in DOMAIN db.classrooms :
              /\ \E u \in DOMAIN db.users : u.uid = row.owner
              /\ \A st \in row.students : \E u \in DOMAIN db.users : u.uid = st
        /\ BagSize(db.classrooms) =
              BagSize(stage.before.classrooms) + OutcomeCount("created")

C32_Witness ==
    /\ stage.kind = "classrooms"
    /\ stage.pc = "done"
    /\ \E i \in 1..Len(stage.outcomes) :
          /\ stage.outcomes[i] = "unresolved"
          /\ GetS(stage.data[i], "ownerUid") = "zed"
    /\ \E i \in 1..Len(stage.outcomes) :
          /\ stage.outcomes[i] = "created"
          /\ "studentUids" \in DOMAIN stage.data[i]
          /\ stage.data[i].studentUids = << "bob", "zed" >>
          /\ [name |-> "red", owner |-> "admin", students |-> {"bob"}]
                 \in DOMAIN db.classrooms

\* C33 (SpecBulk). Bulk import accepts any subset of the ten entity keys:
\* an administrator's request whose body holds lists under some of the keys
\* completes, having run exactly the stages whose key is present; its
\* response holds a tally for each of the ten entity types, the zero tally
\* for an absent key; a missing or empty body is answered 400 and neither a
\* stage nor a rollback touches the database.
C33_BulkAnySubset ==
    (pc # "bulk" /\ exchange.role = "Admin") =>
        /\ (~BulkEmpty(main_all_data) /\ ~BulkRaises(main_all_data.val)) =>
              /\ exchange.status = 200
              /\ {ops[i] : i \in 1..Len(ops)} =
                    DOMAIN main_all_data.val \cap Types
              /\ Len(ops) = Cardinality(DOMAIN main_all_data.val \cap Types)
              /\ DOMAIN exchange.results = Types
              /\ \A t \in Types \ DOMAIN main_all_data.val :
                    exchange.results[t] =
                        [imported |-> 0, failed |-> 0, errors |-> << >>]
              /\ \A t \in Types \cap DOMAIN main_all_data.val :
                    exchange.results[t].returned_by = t
        /\ (main_all_data = NoneData \/ DOMAIN main_all_data.val = {}) =>
              /\ exchange.status = 400
              /\ ops = << >>
              /\ db = SeedTarget

\* A body with three of the ten keys was imported.
C33_Witness ==
    /\ pc = "bulk_200"
    /\ DOMAIN main_all_data.val = {"users", "posts", "study"}
    /\ ops = << "users", "posts", "study" >>
    /\ exchange.results["sections"] = ZeroTally
    /\ exchange.results["users"] # ZeroTally

\* C34 (SpecLoad). No record is mutated in place: a step of a load or
\* import stage leaves every row the target held as it was, neither changed
\* nor deleted; the step either leaves the target as it is (the record is
\* passed over) or adds one new row to the stage's own table.
C34_NoInPlaceMutation ==
    [][ /\ \A t \in DOMAIN db : \A row \in DOMAIN db[t] :
              /\ row \in DOMAIN db'[t]
              /\ db'[t][row] >= db[t][row]
        /\ db' # db =>
              /\ stage'.outcomes[Len(stage'.outcomes)] = "created"
              /\ BagSize(db'[stage.kind]) = BagSize(db[stage.kind]) + 1
              /\ \A t \in DOMAIN db \ {stage.kind} : db'[t] = db[t] ]_vars

\* A stage is over that found one of its records in the target and created
\* another; the rows the target held before the stage are all there.
C34_Witness ==
    /\ stage.pc = "done"
    /\ \E i, j \in 1..Len(stage.outcomes) :
          /\ stage.outcomes[i] = "exists"
          /\ stage.outcomes[j] = "created"
    /\ \A t \in DOMAIN stage.before : \A row \in DOMAIN stage.before[t] :
          row \in DOMAIN db[t]
    /\ db # stage.before

\* C35 (SpecPersona). Select persona replaces the existing assignment: when
\* a user selects an existing persona that they do not hold, the request is
\* answered 201 and the user then holds exactly that persona; a request
\* that is not answered 201 leaves the assignments as they were.
C35_SelectReplaces ==
    (exchange.method = "POST" /\ exchange.path = "user/persona") =>
        LET selected == [user |-> exchange.role,
                         persona |-> exchange.persona_id]
        IN  /\ (exchange.persona_id \in db.personas
                    /\ selected \notin exchange.records) =>
                  /\ exchange.status = 201
                  /\ PersonasOf(db.user_personas, exchange.role) = {selected}
            /\ exchange.status # 201 => db.user_personas = exchange.records

\* The part of C35 that holds of the handler (SpecPersona): no select
\* request changes the committed assignments, and none is answered 201.
SelectNeverCommits ==
    (exchange.method = "POST" /\ exchange.path = "user/persona") =>
        /\ exchange.status \in {400, 404, 500}
        /\ db.user_personas = exchange.records

\* The record of the payload that bears source id k is a reply.
IsReplyId(k) ==
    \E j \in 1..Len(posts_data) :
        posts_data[j].id = k /\ ParentForSplit(posts_data[j]) # 0

\* C36 (SpecThreads). The reply remap table holds only top-level posts:
\* every entry of the old-id to new-id table was made for a top-level post
\* the first pass created, never for a reply; so no row is ever created for
\* a reply whose parent is itself a reply, and once the stage is over such
\* a reply has been passed over, whether or not its parent reply was
\* created in the run.
C36_RemapTopLevelOnly ==
    /\ \A k \in DOMAIN id_mapping :
          /\ ~IsReplyId(k)
          /\ \E row \in dbPosts :
                /\ row.migrated /\ row.pass = 1 /\ row.parent_id = 0
                /\ row.rec.id = k
                /\ row.id = id_mapping[k]
    /\ \A row \in dbPosts :
          (row.migrated /\ ParentForSplit(row.rec) # 0) =>
              ~IsReplyId(ParentForSplit(row.rec))
    /\ postPc = "done" =>
          skipped >= Cardinality({i \in 1..Len(posts_data) :
                                     IsReplyId(ParentForSplit(posts_data[i]))})

\* A thread of depth two went through the stage: post 1, its reply 2 and
\* the reply 3 to that reply; rows were created for 1 and 2, none for 3.
C36_Witness ==
    /\ postPc = "done"
    /\ ParentForSplit(posts_data[1]) = 0
    /\ ParentForSplit(posts_data[2]) = 1
    /\ ParentForSplit(posts_data[3]) = 2
    /\ \E row \in dbPosts : row.migrated /\ row.rec = posts_data[1]
    /\ \E row \in dbPosts : row.migrated /\ row.rec = posts_data[2]
    /\ ~\E row \in dbPosts : row.migrated /\ row.rec = posts_data[3]
    /\ skipped = 1

\* The rows the posts stage has created, in both imports.
ImportedPosts == {row \in dbPosts : row.migrated}

\* C37 (SpecRepeat). Entity types without a natural key are not idempotent
\* in the Import Service: when the same payload is imported a second time,
\* no record is found to exist; every microblog, classroom, feedback and
\* study record the first import created is created once more, and, when
\* no create() of either import fails, so is every top-level post and every
\* reply: the second import adds as many rows as the first.
C37_RepeatedImportDuplicates ==
    /\ (stage.kind \in OpaqueKinds /\ stage.run = 2 /\ stage.pc = "done") =>
          /\ \A i \in 1..Len(stage.outcomes) : stage.outcomes[i] # "exists"
          /\ stage.loaded = BagSize(stage.before[stage.kind])
          /\ DOMAIN db[stage.kind] = DOMAIN stage.before[stage.kind]
          /\ \A row \in DOMAIN db[stage.kind] :
                db[stage.kind][row] = 2 * stage.before[stage.kind][row]
    /\ (stage.kind = "posts" /\ postPc = "done"
            /\ stage.errors = 0 /\ errors = << >>
            /\ stage.loaded + stage.skipped = Len(posts_data)
            /\ loaded + skipped = Len(posts_data)
            /\ stage.idx = stage.loaded
            /\ Cardinality(ImportedPosts) - stage.idx = loaded) =>
          /\ loaded = stage.loaded
          /\ Cardinality(ImportedPosts) = 2 * stage.idx
          /\ \A row \in ImportedPosts :
                Cardinality({q \in ImportedPosts :
                                q.pass = row.pass /\ q.idx = row.idx}) = 2

\* A post and its reply were imported twice: the target holds two rows for
\* the post and two for the reply.
C37_Witness ==
    /\ stage.kind = "posts"
    /\ postPc = "done"
    /\ Len(posts_data) = 2
    /\ Cardinality({q \in ImportedPosts : q.pass = 1}) = 2
    /\ Cardinality({q \in ImportedPosts : q.pass = 2 /\ q.parent_id # 0}) = 2

\* C38 (SpecFilterTwice). filter_default_data is idempotent and leaves its
\* input as it was: the payload obtained by filtering the filtered payload
\* is the filtered payload, and the input holds the collections it held
\* before the calls.
C38_FilterIdempotent ==
    pc = "refiltered" =>
        /\ main_all_data.val = filter_default_data(snapshot.val)
        /\ \E d \in FilterPayloads : snapshot.val = d

\* What holds of the second call (SpecFilterTwice): it changes no
\* collection but topics, from which it only leaves out topics that bear a
\* seed page path.
RefilterOnlySeedTopics ==
    pc = "refiltered" =>
        LET once == filter_default_data(snapshot.val)
        IN  /\ DOMAIN main_all_data.val = DOMAIN once
            /\ \A k \in DOMAIN once \ {"topics"} : main_all_data.val[k] = once[k]
            /\ "topics" \in DOMAIN once =>
                  /\ IsSubSeq(main_all_data.val["topics"], once["topics"])
                  /\ IsSubSeq(SelectSeq(once["topics"],
                                        LAMBDA t : ~SeedRecord("topics", t)),
                              main_all_data.val["topics"])

\* The places of step s in the run's log.
OpsAt(s) == {i \in 1..Len(ops) : ops[i] = s}

\* C39 (Spec). The snapshot file is written only on the success path: a run
\* in which authentication failed or extraction was reported as failed, and
\* which therefore read the snapshot, never writes it and makes no backup
\* of it, the file and its backups being as they were at the start; and a
\* run writes the snapshot at most once, before the schema drop.
C39_SnapshotWrittenOnSuccessOnly ==
    /\ OpsAt("read_snapshot") # {} => OpsAt("write_snapshot") = {}
    /\ OpsAt("write_snapshot") = {} =>
          /\ backups = << >>
          /\ held = {snapshot} \ {MissingFile}
    /\ Cardinality(OpsAt("write_snapshot")) <= 1
    /\ \A i \in OpsAt("write_snapshot") : \A j \in OpsAt("drop_all") : i < j

\* C39, the step itself (Spec): the step of main() that follows a failed
\* authentication or a failed extraction leaves the file and its backups.
FallbackLeavesSnapshot ==
    [][ (AuthenticationFails \/ ExtractionFailed) =>
            /\ snapshot' = snapshot
            /\ backups' = backups ]_vars

\* A run whose extraction failed went on from the snapshot it found and
\* loaded it, the file never being written.
C39_Witness ==
    /\ pc = "done"
    /\ extracted.error # ""
    /\ OpsAt("read_snapshot") # {}
    /\ OpsAt("drop_all") # {}
    /\ snapshot.kind = "dict"
    /\ backups = << >>

\* C40 (SpecExtractFair). Extraction terminates: against a source that
\* answers an out-of-range page with an empty array, and whatever transient
\* and terminal failures occur, extract_all_data returns; no page is
\* requested more than max_retries (3) times, no page beyond the first
\* empty one is requested, and from one page of an entity type to the next
\* the page number goes up by one.
C40_ExtractionTerminates ==
    /\ <>(pc = "extract_returned")
    /\ [](attempts <= max_retries)
    /\ [](gType \in paginated_types =>
              gPage <= PagesOf(srcTotal[gType]) + 1)
    /\ [][ (gType' = gType /\ gPage' # gPage) => gPage' = gPage + 1 ]_vars

\* extract_all_data has returned after a page was requested three times
\* and after a collection of more than one page was fetched to its end.
C40_Witness ==
    /\ pc = "extract_returned"
    /\ \E t \in Types : "exhausted" \in stopSeen[t]
    /\ \E t \in paginated_types :
          /\ t \in DOMAIN all_data
          /\ Len(all_data[t]) > per_page
          /\ Len(all_data[t]) = srcTotal[t]

====
